---- MODULE Spec2Model ----
(***************************************************************************)
(* A model of the diagram generators of python-depedency-diagram-generator *)
(* (generator/ascii_generator.py, text_generator.py, mermaid_generator.py) *)
(* over an entity graph as analyzer/entity.py's Entity objects hold it.    *)
(*                                                                         *)
(* One generator instance lives over one entity graph.  A call of          *)
(* ASCIIDiagramGenerator.generate is followed through its phases:          *)
(*   the two recursive collections (one step per loop iteration, the set   *)
(*   being iterated in any order), the two breadth-first level sweeps (one *)
(*   step per edge of the node being expanded, in any order), the layout   *)
(*   and box drawing, one step per arrow, and the rendering of the grid.   *)
(* Python strings are TLA+ strings; the grid is a function from <<x, y>>   *)
(* to one-character strings.                                               *)
(***************************************************************************)
EXTENDS Integers, Sequences, FiniteSets, TLC

\* ------------------------------------------------------------------ bounds
\* Number of entities of the graph, taken from NamePool.
NumNames == 3
\* Largest number of dependency edges of a generated graph.
MaxEdges == 3
\* Largest depth argument of a generate call.
MaxDepth == 2
\* Longest dependency chain (number of edges) of the chain specification.
MaxChain == 4
\* The depths of the calls on cyclic graphs run from 0 to MaxCyclicDepth.
MaxCyclicDepth == 3
\* Box positions of the box specification range over -MaxCoord..MaxCoord.
MaxCoord == 2
\* The cells of the grid specification lie in columns -MaxGrid..MaxGrid and
\* rows 0..MaxGrid.
MaxGrid == 1
\* Largest number of cells the grid of the grid specification holds.
MaxCells == 3
\* The target box of the arrow specification lies at most MaxReach columns
\* and rows from the source box.
MaxReach == 4
\* Number of names the files of the parser specification define and refer to.
MaxParsed == 2
\* Largest number of top-level definitions of a parsed file.
MaxDefs == 2

\* ------------------------------------------------------------- the inputs
NamePool == <<"A", "B", "C", "D", "E", "F", "G", "H">>
Names == {NamePool[i] : i \in 1..NumNames}
\* A name that is never a key of the graph.
Ghost == "Ghost"
Kinds == {"class", "function"}

\* Code points of the characters names are made of (Python compares strings
\* by code point).
Code(c) ==
    CASE c = "A" -> 65 [] c = "B" -> 66 [] c = "C" -> 67 [] c = "D" -> 68
      [] c = "E" -> 69 [] c = "F" -> 70 [] c = "G" -> 71 [] c = "H" -> 72
      [] c = "h" -> 104 [] c = "o" -> 111 [] c = "s" -> 115 [] c = "t" -> 116

RECURSIVE StrLessFrom(_, _, _)
StrLessFrom(a, b, i) ==
    IF i > Len(a) THEN i <= Len(b)
    ELSE IF i > Len(b) THEN FALSE
    ELSE IF SubSeq(a, i, i) = SubSeq(b, i, i) THEN StrLessFrom(a, b, i + 1)
    ELSE Code(SubSeq(a, i, i)) < Code(SubSeq(b, i, i))

\* a < b on Python strings.
StrLess(a, b) == StrLessFrom(a, b, 1)

\* (s1, t1) < (s2, t2) on Python tuples of strings.
EdgeLess(e, f) == StrLess(e[1], f[1]) \/ (e[1] = f[1] /\ StrLess(e[2], f[2]))

MinName(S) == CHOOSE n \in S : \A m \in S : m = n \/ StrLess(n, m)
MinEdge(S) == CHOOSE e \in S : \A f \in S : f = e \/ EdgeLess(e, f)

RECURSIVE SortedNames(_)
\* sorted(S) for a set of strings.
SortedNames(S) ==
    IF S = {} THEN <<>> ELSE <<MinName(S)>> \o SortedNames(S \ {MinName(S)})

RECURSIVE SortedEdges(_)
\* sorted(list(all_edges)).
SortedEdges(S) ==
    IF S = {} THEN <<>> ELSE <<MinEdge(S)>> \o SortedEdges(S \ {MinEdge(S)})

RECURSIVE SortedInts(_)
SortedInts(S) ==
    IF S = {} THEN <<>>
    ELSE LET m == CHOOSE n \in S : \A k \in S : n <= k
         IN <<m>> \o SortedInts(S \ {m})

Abs(n) == IF n < 0 THEN -n ELSE n
Min(a, b) == IF a < b THEN a ELSE b
Max(a, b) == IF a > b THEN a ELSE b

\* An Entity as the parser makes it: the key of the map is the entity's name.
Entity(n, kind, deps, users) ==
    [name |-> n, type |-> kind, dependencies |-> deps, used_by |-> users]

\* The kind of the i-th entity of the pool: classes and functions alternate.
KindOf(n) ==
    IF n \in {NamePool[i] : i \in {1, 3, 5, 7}} THEN "class" ELSE "function"

\* The graph with dependency relation R over Names (a set of <<source, target>>).
\*   "inverse":      used_by is the inverse of dependencies (well-formed);
\*   "dangling":     as "inverse", and every set also names the absent Ghost;
\*   "deps_only":    no used_by was recorded;
\*   "used_by_only": no dependency was recorded.
GraphModes == {"inverse", "dangling", "deps_only", "used_by_only"}
GraphOf(R, mode) ==
    [n \in Names |->
        Entity(n, KindOf(n),
               (IF mode = "used_by_only" THEN {} ELSE {e[2] : e \in {f \in R : f[1] = n}})
                   \cup (IF mode = "dangling" THEN {Ghost} ELSE {}),
               (IF mode = "deps_only" THEN {} ELSE {e[1] : e \in {f \in R : f[2] = n}})
                   \cup (IF mode = "dangling" THEN {Ghost} ELSE {}))]

Relations == {R \in SUBSET (Names \X Names) : Cardinality(R) <= MaxEdges}

\* The chain E0 -> E1 -> ... -> En over the first n + 1 names of the pool, with
\* inverse used_by sets.
ChainOf(n) ==
    [m \in {NamePool[i] : i \in 1..(n + 1)} |->
        LET k == CHOOSE i \in 1..(n + 1) : NamePool[i] = m
        IN Entity(m, KindOf(m),
                  IF k <= n THEN {NamePool[k + 1]} ELSE {},
                  IF k > 1 THEN {NamePool[k - 1]} ELSE {})]

\* ------------------------------------------------------------------- state
VARIABLES
    entities,         \* self.entities: name -> Entity
    pc,               \* where the generator is: "idle", a phase of generate, "done"
    entity_name,      \* generate's argument
    depth,            \* generate's argument
    all_nodes,        \* generate's local all_nodes
    all_edges,        \* generate's local all_edges
    visited_paths,    \* generate's local visited_paths
    stack,            \* the frames of the running _collect_*_recursive calls
    node_levels,      \* generate's local node_levels
    visited_bfs,      \* visited_bfs_dep / visited_bfs_caller of the running sweep
    queue,            \* q_dep / q_caller of the running sweep
    cur,              \* the node the running sweep expands, and its edges to go
    entity_positions, \* generate's local entity_positions
    pending,          \* the sorted edges whose arrows are still to be drawn
    surface,          \* self.grid, self.min_x, self.min_y, self.max_x, self.max_y
    generator,        \* the class of the generator: "ascii", "text" or "mermaid"
    result            \* the string the last call returned

vars == <<entities, pc, entity_name, depth, all_nodes, all_edges, visited_paths,
          stack, node_levels, visited_bfs, queue, cur, entity_positions,
          pending, surface, generator, result>>

\* __init__: an empty grid and zero bounds.
EmptySurface == [grid |-> [p \in {} |-> " "], min_x |-> 0, min_y |-> 0, max_x |-> 0, max_y |-> 0]

NoCur == [node |-> "", level |-> 0, todo |-> {}]

\* ------------------------------------------------------------ the surface
\* self.char_map
CharTopLeft == "+"
CharHorizontal == "-"
CharVertical == "|"
CharArrowLeft == "<"
CharArrowRight == ">"
CharArrowUp == "^"
CharArrowDown == "v"

\* self.grid.get((x, y), ' ')
GridGet(S, x, y) == IF <<x, y>> \in DOMAIN S.grid THEN S.grid[<<x, y>>] ELSE " "

\* SetChar without the branch len(self.grid) == 1: the bounds are always
\* widened, never set.
SetCharWidening(S, x, y, c) ==
    [grid |-> (<<x, y>> :> c) @@ S.grid,
     min_x |-> Min(S.min_x, x), min_y |-> Min(S.min_y, y),
     max_x |-> Max(S.max_x, x + 1), max_y |-> Max(S.max_y, y + 1)]

\* _set_char: write one cell and update the bounds.
SetChar(S, x, y, c) ==
    LET g == (<<x, y>> :> c) @@ S.grid
    IN IF Cardinality(DOMAIN g) = 1
       THEN [grid |-> g, min_x |-> x, min_y |-> y, max_x |-> x + 1, max_y |-> y + 1]
       ELSE [grid |-> g,
             min_x |-> Min(S.min_x, x), min_y |-> Min(S.min_y, y),
             max_x |-> Max(S.max_x, x + 1), max_y |-> Max(S.max_y, y + 1)]

RECURSIVE Written(_, _, _)
\* The cells the calls ws[lo..hi] write, each with the last character written.
Written(ws, lo, hi) ==
    IF lo = hi THEN <<ws[lo][1], ws[lo][2]>> :> ws[lo][3]
    ELSE LET mid == (lo + hi) \div 2
         IN Written(ws, mid + 1, hi) @@ Written(ws, lo, mid)

\* The _set_char calls ws[1], ws[2], ... made in this order; a call is
\* <<x, y, char>>.  The grid keeps the last character written to a cell.  The
\* bounds are reset by every call that leaves exactly one cell in the grid (the
\* branch len(self.grid) == 1): these are the first k calls when the grid held
\* nothing but their cell; every later call widens the bounds.
WriteAll(S, ws) ==
    LET n == Len(ws)
        Cell(i) == <<ws[i][1], ws[i][2]>>
        k == IF DOMAIN S.grid \subseteq {Cell(1)}
             THEN CHOOSE i \in 1..n :
                      /\ \A j \in 1..i : Cell(j) = Cell(1)
                      /\ i = n \/ Cell(i + 1) # Cell(1)
             ELSE 0
        xs == {ws[i][1] : i \in (k + 1)..n}
        ys == {ws[i][2] : i \in (k + 1)..n}
        x0 == IF k = 0 THEN S.min_x ELSE ws[k][1]
        x1 == IF k = 0 THEN S.max_x ELSE ws[k][1] + 1
        y0 == IF k = 0 THEN S.min_y ELSE ws[k][2]
        y1 == IF k = 0 THEN S.max_y ELSE ws[k][2] + 1
    IN IF n = 0 THEN S
       ELSE [grid |-> Written(ws, 1, n) @@ S.grid,
             min_x |-> CHOOSE m \in xs \cup {x0} : \A v \in xs \cup {x0} : m <= v,
             min_y |-> CHOOSE m \in ys \cup {y0} : \A v \in ys \cup {y0} : m <= v,
             max_x |-> CHOOSE m \in {v + 1 : v \in xs} \cup {x1} :
                           \A v \in {w + 1 : w \in xs} \cup {x1} : m >= v,
             max_y |-> CHOOSE m \in {v + 1 : v \in ys} \cup {y1} :
                           \A v \in {w + 1 : w \in ys} \cup {y1} : m >= v]

\* ContentText without the trailing space.
ContentTextTight(name, kind) == " " \o name \o " (" \o kind \o ")"

\* f" {entity_name} ({entity_type}) "
ContentText(name, kind) == " " \o name \o " (" \o kind \o ") "

\* f" {node_name_draw} (details not found) "
PlaceholderText(name) == " " \o name \o " (details not found) "

\* The _set_char calls that draw a bordered box around text at (x, y), in the
\* order _draw_box (and the placeholder branch of generate) makes them.
BoxWrites(text, x, y) ==
    LET cw == Len(text)
        top == <<<<x, y, CharTopLeft>>>>
               \o [i \in 1..cw |-> <<x + i, y, CharHorizontal>>]
               \o <<<<x + cw + 1, y, CharTopLeft>>>>
        mid == <<<<x, y + 1, CharVertical>>>>
               \o [i \in 1..cw |-> <<x + i, y + 1, SubSeq(text, i, i)>>]
               \o <<<<x + cw + 1, y + 1, CharVertical>>>>
        bot == <<<<x, y + 2, CharTopLeft>>>>
               \o [i \in 1..cw |-> <<x + i, y + 2, CharHorizontal>>]
               \o <<<<x + cw + 1, y + 2, CharTopLeft>>>>
    IN top \o mid \o bot

\* _draw_box: the surface after the call and the (width, height) it returns.
DrawBox(S, name, kind, x, y) ==
    LET text == ContentText(name, kind)
    IN [surface |-> WriteAll(S, BoxWrites(text, x, y)),
        size |-> <<Len(text) + 2, 3>>]

\* HorizontalCell with the last branch writing the line character: a box
\* character or an arrowhead is overwritten.
HorizontalCellOverwriting(existing, check_collision) ==
    IF check_collision /\ existing # " "
    THEN IF existing = CharVertical THEN CharTopLeft
         ELSE IF existing = CharHorizontal THEN ""
         ELSE IF existing = CharTopLeft THEN ""
         ELSE CharHorizontal
    ELSE CharHorizontal

\* What _draw_horizontal_segment does at a cell holding existing: the
\* character it writes, or "" when it writes nothing.
HorizontalCell(existing, check_collision) ==
    IF check_collision /\ existing # " "
    THEN IF existing = CharVertical THEN CharTopLeft    \* form '+'
         ELSE IF existing = CharHorizontal THEN ""      \* already '-'
         ELSE IF existing = CharTopLeft THEN ""         \* already '+'
         ELSE ""                                        \* box char or arrow head
    ELSE CharHorizontal

\* What _draw_vertical_segment does at a cell holding existing.
VerticalCell(existing, check_collision) ==
    IF check_collision /\ existing # " "
    THEN IF existing = CharHorizontal THEN CharTopLeft
         ELSE IF existing = CharVertical THEN ""
         ELSE IF existing = CharTopLeft THEN ""
         ELSE ""
    ELSE CharVertical

IsWrite(w) == w[3] # ""

\* _draw_horizontal_segment: the cells min(x1, x2) .. max(x1, x2) of row y, left
\* to right.  Each cell is visited once and only its own content decides what
\* is written to it.
DrawHorizontalSegment(S, x1, y, x2, check_collision) ==
    LET start_x == Min(x1, x2)
        end_x == Max(x1, x2)
        visits == [i \in 1..(end_x - start_x + 1) |->
                      <<start_x + i - 1, y,
                        HorizontalCell(GridGet(S, start_x + i - 1, y), check_collision)>>]
    IN WriteAll(S, SelectSeq(visits, IsWrite))

\* _draw_vertical_segment: the cells min(y1, y2) .. max(y1, y2) of column x.
DrawVerticalSegment(S, x, y1, y2, check_collision) ==
    LET start_y == Min(y1, y2)
        end_y == Max(y1, y2)
        visits == [i \in 1..(end_y - start_y + 1) |->
                      <<x, start_y + i - 1,
                        VerticalCell(GridGet(S, x, start_y + i - 1), check_collision)>>]
    IN WriteAll(S, SelectSeq(visits, IsWrite))

\* ArrowRoute with > in place of >=: a tie is routed vertically.
ArrowRouteStrict(sp, tp) ==
    LET dx2 == (2 * tp[1] + tp[3]) - (2 * sp[1] + sp[3])
        dy2 == (2 * tp[2] + tp[4]) - (2 * sp[2] + sp[4])
    IN IF Abs(dx2) > Abs(dy2)
       THEN IF dx2 > 0 THEN "right" ELSE "left"
       ELSE IF dy2 > 0 THEN "down" ELSE "up"

\* ArrowRoute with the horizontal directions exchanged.
ArrowRouteMirrored(sp, tp) ==
    LET dx2 == (2 * tp[1] + tp[3]) - (2 * sp[1] + sp[3])
        dy2 == (2 * tp[2] + tp[4]) - (2 * sp[2] + sp[4])
    IN IF Abs(dx2) >= Abs(dy2)
       THEN IF dx2 > 0 THEN "left" ELSE "right"
       ELSE IF dy2 > 0 THEN "down" ELSE "up"

\* _draw_arrow's routing decision.  The centres are sx + sw / 2 and so on; twice
\* the differences are integers with the same signs and the same order of size.
ArrowRoute(sp, tp) ==
    LET dx2 == (2 * tp[1] + tp[3]) - (2 * sp[1] + sp[3])
        dy2 == (2 * tp[2] + tp[4]) - (2 * sp[2] + sp[4])
    IN IF Abs(dx2) >= Abs(dy2)
       THEN IF dx2 > 0 THEN "right" ELSE "left"
       ELSE IF dy2 > 0 THEN "down" ELSE "up"

\* EdgePoint at the first row or column of the side, not at its middle.
EdgePointCorner(p, side) ==
    CASE side = "right"  -> <<p[1] + p[3] - 1, p[2]>>
      [] side = "left"   -> <<p[1], p[2]>>
      [] side = "bottom" -> <<p[1], p[2] + p[4] - 1>>
      [] side = "top"    -> <<p[1], p[2]>>

\* s_exit_pts / t_entry_pts
EdgePoint(p, side) ==
    CASE side = "right"  -> <<p[1] + p[3] - 1, p[2] + (p[4] \div 2)>>
      [] side = "left"   -> <<p[1], p[2] + (p[4] \div 2)>>
      [] side = "bottom" -> <<p[1] + (p[3] \div 2), p[2] + p[4] - 1>>
      [] side = "top"    -> <<p[1] + (p[3] \div 2), p[2]>>

\* Horizontal-vertical-horizontal path from (start_x, start_y), leaving by
\* off (1 to the right, -1 to the left), to the arrowhead.
ArrowHVH(S, start, end, off, arrow_char) ==
    LET mid_x == (start[1] + end[1]) \div 2
        s1 == DrawHorizontalSegment(S, start[1] + off, start[2], mid_x, TRUE)
        s2 == SetChar(s1, mid_x, start[2], "+")
        s3 == DrawVerticalSegment(s2, mid_x, start[2], end[2], TRUE)
        s4 == SetChar(s3, mid_x, end[2], "+")
        s5 == DrawHorizontalSegment(s4, mid_x, end[2], end[1] - off, TRUE)
    IN SetChar(s5, end[1] - off, end[2], arrow_char)

\* Vertical-horizontal-vertical path.
ArrowVHV(S, start, end, off, arrow_char) ==
    LET mid_y == (start[2] + end[2]) \div 2
        s1 == DrawVerticalSegment(S, start[1], start[2] + off, mid_y, TRUE)
        s2 == SetChar(s1, start[1], mid_y, "+")
        s3 == DrawHorizontalSegment(s2, start[1], mid_y, end[1], TRUE)
        s4 == SetChar(s3, end[1], mid_y, "+")
        s5 == DrawVerticalSegment(s4, end[1], mid_y, end[2] - off, TRUE)
    IN SetChar(s5, end[1], end[2] - off, arrow_char)

\* _draw_arrow(source_pos_dims, target_pos_dims)
DrawArrow(S, sp, tp) ==
    LET route == ArrowRoute(sp, tp)
    IN CASE route = "right" ->
              ArrowHVH(S, EdgePoint(sp, "right"), EdgePoint(tp, "left"), 1, CharArrowRight)
         [] route = "left" ->
              ArrowHVH(S, EdgePoint(sp, "left"), EdgePoint(tp, "right"), -1, CharArrowLeft)
         [] route = "down" ->
              ArrowVHV(S, EdgePoint(sp, "bottom"), EdgePoint(tp, "top"), 1, CharArrowDown)
         [] route = "up" ->
              ArrowVHV(S, EdgePoint(sp, "top"), EdgePoint(tp, "bottom"), -1, CharArrowUp)

RECURSIVE RowText(_, _, _, _)
\* "".join of the cells lo .. hi of row y.
RowText(S, lo, hi, y) ==
    IF lo > hi THEN ""
    ELSE IF lo = hi THEN GridGet(S, lo, y)
    ELSE LET mid == (lo + hi) \div 2
         IN RowText(S, lo, mid, y) \o RowText(S, mid + 1, hi, y)

RECURSIVE RowsText(_, _)
\* "\n".join of the rows y .. max_y - 1.
RowsText(S, y) ==
    IF y >= S.max_y THEN ""
    ELSE RowText(S, S.min_x, S.max_x - 1, y)
         \o (IF y + 1 >= S.max_y THEN "" ELSE "\n" \o RowsText(S, y + 1))

\* _render_grid
RenderGrid(S) ==
    IF DOMAIN S.grid = {} THEN "(Empty Diagram - Grid is empty)"
    ELSE RowsText(S, S.min_y)

RECURSIVE Repeat(_, _)
\* c * n
Repeat(c, n) == IF n <= 0 THEN "" ELSE c \o Repeat(c, n - 1)

\* NotFoundText with the quotes around the name left out.
NotFoundTextUnquoted(name) == "Entity " \o name \o " not found"

\* The string generate returns for a name that is not a key of the graph.
NotFoundText(name) == "Entity '" \o name \o "' not found"

\* The string generate returns when nothing was collected.
NoEntitiesText(name, d) ==
    "ASCII Diagram for " \o name \o " (depth " \o ToString(d) \o "):\n"
    \o Repeat("-", 40) \o "\n(No entities or relationships found to display)"

\* The string generate returns for a drawn diagram.
DiagramText(name, d, S) ==
    LET header == "ASCII Diagram for " \o name \o " (depth " \o ToString(d) \o "):"
    IN header \o "\n" \o Repeat("=", Len(header)) \o "\n\n" \o RenderGrid(S)


\* ------------------------------------------------------------- collection
\* CollectReturnsAtOnce with the guard current_depth < 0 in place of <= 0.
CollectReturnsBelowZero(name, current_depth) ==
    current_depth < 0 \/ name \notin DOMAIN entities

\* The guard that opens _collect_dependencies_recursive and
\* _collect_callers_recursive: True when the call returns at once.
CollectReturnsAtOnce(name, current_depth) ==
    current_depth <= 0 \/ name \notin DOMAIN entities

\* Frames whose loop has nothing left to iterate return to their caller.
RECURSIVE Unwind(_)
Unwind(stk) ==
    IF stk # <<>> /\ stk[Len(stk)].todo = {}
    THEN Unwind(SubSeq(stk, 1, Len(stk) - 1))
    ELSE stk

\* The set the loop of a collection call iterates: entity.dependencies for the
\* dependency pass, entity.used_by for the caller pass.
Related(name, pass) ==
    IF pass = "deps" THEN entities[name].dependencies ELSE entities[name].used_by

\* The edge a collection call makes of the node it is at and a related name:
\* (source, dep) in the dependency pass, (caller, target) in the caller pass.
EdgeOf(node, other, pass) ==
    IF pass = "deps" THEN <<node, other>> ELSE <<other, node>>

\* A call _collect_*_recursive(name, current_depth, ...): the collection state
\* [stack, nodes, edges, visited] after the call has added its node and stands
\* before its loop, or unchanged when it returned at once.
EnterCollect(C, name, current_depth, pass) ==
    IF CollectReturnsAtOnce(name, current_depth) THEN C
    ELSE [C EXCEPT !.nodes = @ \cup {name},
                   !.stack = Append(@, [node |-> name, depth |-> current_depth,
                                        todo |-> Related(name, pass)])]

\* SkipsRelated without the first continue: a name that is no key of the graph
\* is collected.
SkipsVisitedOnly(C, node, other, pass) == EdgeOf(node, other, pass) \in C.visited

\* SkipsRelated without the second continue: a visited pair is traversed again.
SkipsMissingOnly(C, node, other, pass) == other \notin DOMAIN entities

\* Whether the loop body skips other (the two continue statements).
SkipsRelated(C, node, other, pass) ==
    other \notin DOMAIN entities \/ EdgeOf(node, other, pass) \in C.visited

\* One iteration of the loop of the innermost running call, for the element
\* other of the set it iterates, up to the next iteration of a loop.
CollectIteration(C, other, pass) ==
    LET n == Len(C.stack)
        top == C.stack[n]
        C1 == [C EXCEPT !.stack[n].todo = @ \ {other}]
        C2 == IF SkipsRelated(C, top.node, other, pass) THEN C1
              ELSE EnterCollect(
                       [C1 EXCEPT !.visited = @ \cup {EdgeOf(top.node, other, pass)},
                                  !.nodes = @ \cup {other},
                                  !.edges = @ \cup {EdgeOf(top.node, other, pass)}],
                       other, top.depth - 1, pass)
    IN [C2 EXCEPT !.stack = Unwind(@)]

Collection == [stack |-> stack, nodes |-> all_nodes, edges |-> all_edges,
               visited |-> visited_paths]

SetCollection(C) ==
    /\ stack' = C.stack
    /\ all_nodes' = C.nodes
    /\ all_edges' = C.edges
    /\ visited_paths' = C.visited

\* ------------------------------------------------------------------ levels
\* continue of the while loop: a node at the depth limit is not expanded,
\* unless it is the focal entity.
NotExpanded(node, level) == Abs(level) >= depth /\ node # entity_name

\* SweepEdges with the caller sweep following the edges that leave the node.
SweepEdgesLeaving(node, sweep) == {e \in all_edges : e[1] = node}

\* The edges the for loop of a sweep acts on for node: those leaving it in
\* the dependency sweep, those entering it in the caller sweep.
SweepEdges(node, sweep) ==
    IF sweep = "dep" THEN {e \in all_edges : e[1] = node}
    ELSE {e \in all_edges : e[2] = node}

\* Whether a sweep records new_level for node.
Improves(V, node, new_level, sweep) ==
    /\ node \in all_nodes
    /\ \/ node \notin DOMAIN V
       \/ IF sweep = "dep" THEN new_level < V[node]
          ELSE Abs(new_level) < Abs(V[node])

\* Enqueued with the limit one level short: a node one level above the depth
\* limit is not put on the queue.
EnqueuedShort(node, new_level) ==
    Abs(new_level) < depth - 1 \/ (Abs(new_level) = depth /\ node = entity_name)

\* Enqueued with <= in place of <: a node at the depth limit is put on the queue.
EnqueuedAtLimit(node, new_level) == Abs(new_level) <= depth

\* Whether a node that got new_level is put on the queue.
Enqueued(node, new_level) ==
    Abs(new_level) < depth \/ (Abs(new_level) = depth /\ node = entity_name)

\* popleft until a node with edges to act on is found, or the queue is empty.
RECURSIVE NextExpansion(_, _)
NextExpansion(q, sweep) ==
    IF q = <<>> THEN [cur |-> [node |-> "", level |-> 0, todo |-> {}], queue |-> q]
    ELSE LET todo == IF NotExpanded(q[1][1], q[1][2]) THEN {}
                     ELSE SweepEdges(q[1][1], sweep)
         IN IF todo = {} THEN NextExpansion(Tail(q), sweep)
            ELSE [cur |-> [node |-> q[1][1], level |-> q[1][2], todo |-> todo],
                  queue |-> Tail(q)]

\* SweepEdge with new_level = level + 1 in the caller sweep as well.
SweepEdgeUpward(B, e, sweep) ==
    LET other == IF sweep = "dep" THEN e[2] ELSE e[1]
        new_level == B.cur.level + 1
        hit == Improves(B.visited, other, new_level, sweep)
        q == IF hit /\ Enqueued(other, new_level)
             THEN Append(B.queue, <<other, new_level>>) ELSE B.queue
        todo == B.cur.todo \ {e}
        nxt == IF todo = {} THEN NextExpansion(q, sweep)
               ELSE [cur |-> [B.cur EXCEPT !.todo = todo], queue |-> q]
    IN [levels |-> IF hit THEN (other :> new_level) @@ B.levels ELSE B.levels,
        visited |-> IF hit THEN (other :> new_level) @@ B.visited ELSE B.visited,
        queue |-> nxt.queue,
        cur |-> nxt.cur]

\* The sweep state [levels, visited, queue, cur] after the for loop acted on
\* edge e of the node being expanded.
SweepEdge(B, e, sweep) ==
    LET other == IF sweep = "dep" THEN e[2] ELSE e[1]
        new_level == IF sweep = "dep" THEN B.cur.level + 1 ELSE B.cur.level - 1
        hit == Improves(B.visited, other, new_level, sweep)
        q == IF hit /\ Enqueued(other, new_level)
             THEN Append(B.queue, <<other, new_level>>) ELSE B.queue
        todo == B.cur.todo \ {e}
        nxt == IF todo = {} THEN NextExpansion(q, sweep)
               ELSE [cur |-> [B.cur EXCEPT !.todo = todo], queue |-> q]
    IN [levels |-> IF hit THEN (other :> new_level) @@ B.levels ELSE B.levels,
        visited |-> IF hit THEN (other :> new_level) @@ B.visited ELSE B.visited,
        queue |-> nxt.queue,
        cur |-> nxt.cur]

\* StartSweep with visited_bfs starting empty: the focal entity is not marked
\* as visited at level 0.
StartSweepUnvisited(levels, sweep) ==
    LET nxt == NextExpansion(IF entity_name \in all_nodes
                             THEN <<<<entity_name, 0>>>> ELSE <<>>, sweep)
    IN [levels |-> levels, visited |-> [n \in {} |-> 0],
        queue |-> nxt.queue, cur |-> nxt.cur]

\* The state of a sweep as it starts: the focal entity on the queue at level 0.
StartSweep(levels, sweep) ==
    LET nxt == NextExpansion(IF entity_name \in all_nodes
                             THEN <<<<entity_name, 0>>>> ELSE <<>>, sweep)
    IN [levels |-> levels, visited |-> (entity_name :> 0),
        queue |-> nxt.queue, cur |-> nxt.cur]

Sweep == [levels |-> node_levels, visited |-> visited_bfs, queue |-> queue, cur |-> cur]

SetSweep(B) ==
    /\ node_levels' = B.levels
    /\ visited_bfs' = B.visited
    /\ queue' = B.queue
    /\ cur' = B.cur

\* ------------------------------------------------------------------ layout
X_SPACING == 10
Y_SPACING == 2

\* The fallback loop: a collected node without a level gets level 0.
WithFallback(levels, nodes) ==
    [n \in DOMAIN levels \cup nodes |-> IF n \in DOMAIN levels THEN levels[n] ELSE 0]

\* NodesAtLevel sorted in descending order.
NodesAtLevelDescending(levels, nodes, lvl) ==
    LET up == SortedNames({n \in DOMAIN levels : n \in nodes /\ levels[n] = lvl})
    IN [i \in 1..Len(up) |-> up[Len(up) + 1 - i]]

\* levels[lvl], sorted.
NodesAtLevel(levels, nodes, lvl) ==
    SortedNames({n \in DOMAIN levels : n \in nodes /\ levels[n] = lvl})

\* box_dimensions[node]: the size the first pass computes.
BoxDimensions(node) ==
    LET name_display == IF node \in DOMAIN entities THEN entities[node].name ELSE node
        type_display == IF node \in DOMAIN entities THEN entities[node].type ELSE "Unknown"
    IN <<Len(ContentText(name_display, type_display)) + 2, 3>>

RECURSIVE MaxOf(_)
MaxOf(S) == IF S = {} THEN 0
            ELSE LET m == CHOOSE n \in S : TRUE IN Max(m, MaxOf(S \ {m}))

\* MaxWidthAtLevel with min in place of max: the narrowest box of the level.
MinWidthAtLevel(levels, nodes, lvl) ==
    LET widths == {BoxDimensions(n)[1] : n \in {m \in nodes : levels[m] = lvl}}
    IN IF widths = {} THEN 0 ELSE CHOOSE w \in widths : \A v \in widths : w <= v

\* max_widths_at_level[lvl]
MaxWidthAtLevel(levels, nodes, lvl) ==
    MaxOf({BoxDimensions(n)[1] : n \in {m \in nodes : levels[m] = lvl}})

RECURSIVE LevelXOwnWidth(_, _, _, _)
\* LevelX advancing by the width of the level itself, not of the one before.
LevelXOwnWidth(levels, nodes, lvls, i) ==
    IF i = 1 THEN 1
    ELSE LevelXOwnWidth(levels, nodes, lvls, i - 1)
         + MaxWidthAtLevel(levels, nodes, lvls[i]) + X_SPACING

RECURSIVE LevelX(_, _, _, _)
\* level_x_coords[lvls[i]] for the sorted level indices lvls.
LevelX(levels, nodes, lvls, i) ==
    IF i = 1 THEN 1
    ELSE LevelX(levels, nodes, lvls, i - 1)
         + MaxWidthAtLevel(levels, nodes, lvls[i - 1]) + X_SPACING

\* The width of the box the second pass draws for node.
DrawnWidth(node) ==
    IF node \in DOMAIN entities THEN BoxDimensions(node)[1]
    ELSE Len(PlaceholderText(node)) + 2

RECURSIVE PlaceColumn(_, _, _, _, _)
\* The second pass over one level: draws the boxes of column[i..] from
\* current_y_coord down and records their positions.  L is [surface, positions].
PlaceColumn(L, column, i, x, y) ==
    IF i > Len(column) THEN L
    ELSE LET node == column[i]
             drawn == IF node \in DOMAIN entities
                      THEN DrawBox(L.surface, entities[node].name,
                                   entities[node].type, x, y).surface
                      ELSE WriteAll(L.surface,
                                    BoxWrites(PlaceholderText(node), x, y))
             pos == <<x, y, DrawnWidth(node), BoxDimensions(node)[2]>>
         IN PlaceColumn([surface |-> drawn,
                         positions |-> (node :> pos) @@ L.positions],
                        column, i + 1, x, y + BoxDimensions(node)[2] + Y_SPACING)

RECURSIVE PlaceLevels(_, _, _, _, _)
PlaceLevels(L, levels, nodes, lvls, i) ==
    IF i > Len(lvls) THEN L
    ELSE PlaceLevels(
             PlaceColumn(L, NodesAtLevel(levels, nodes, lvls[i]), 1,
                         LevelX(levels, nodes, lvls, i), 1),
             levels, nodes, lvls, i + 1)

\* Lines 229-305 of generate: the levels with the fallback applied, and the
\* surface and entity_positions after every box is drawn.
Layout(S, raw_levels, nodes) ==
    LET levels == WithFallback(raw_levels, nodes)
        lvls == SortedInts({levels[n] : n \in {m \in DOMAIN levels : m \in nodes}})
        L == PlaceLevels([surface |-> S, positions |-> [n \in {} |-> <<>>]],
                         levels, nodes, lvls, 1)
    IN [levels |-> levels, surface |-> L.surface, positions |-> L.positions]


\* ------------------------------------------------- the other two generators
\* The orders one set can be iterated in: every sequence that holds each
\* member of S once (a name that is no key of the graph included, wherever the
\* order puts it).
OrdersOf(S) ==
    {q \in [1..Cardinality(S) -> S] : \A i, j \in 1..Cardinality(S) : q[i] = q[j] => i = j}

\* The sets a generator iterates: the dependencies ("deps") and the used_by
\* ("callers") of every entity.  Each is a set object of its own.
IteratedSets == (DOMAIN entities) \X {"deps", "callers"}

RECURSIVE OrdersOver(_)
\* One order for each of the sets in keys, each chosen on its own.
OrdersOver(keys) ==
    IF keys = {} THEN {<<>>}
    ELSE LET k == CHOOSE x \in keys : TRUE
         IN {(k :> q) @@ f : q \in OrdersOf(Related(k[1], k[2])),
                              f \in OrdersOver(keys \ {k})}

\* The iteration orders the sets of the graph can have: an order for every
\* set, two sets of the same members not bound to the same order.
IterationOrders == OrdersOver(IteratedSets)

\* The members of the set pass names on entity name, in the order ord
\* iterates that set in.
Ordered(name, pass, ord) == ord[<<name, pass>>]

RECURSIVE JoinLines(_, _, _)
\* "\n".join(lines[lo..hi])
JoinLines(lines, lo, hi) ==
    IF lo > hi THEN ""
    ELSE IF lo = hi THEN lines[lo]
    ELSE LET mid == (lo + hi) \div 2
         IN JoinLines(lines, lo, mid) \o "\n" \o JoinLines(lines, mid + 1, hi)

\* TextGenerator._add_dependencies (pass "deps") and _add_used_by (pass
\* "callers"): the lines the call appends.  visited is the copy the call got.
RECURSIVE TextAdd(_, _, _, _, _, _)
RECURSIVE TextAddLoop(_, _, _, _, _, _, _)
\* TextAdd with the guard current_depth > max_depth in place of >=.
TextAddDeeper(name, max_depth, current_depth, visited, pass, ord) ==
    IF name \in visited \/ current_depth > max_depth THEN <<>>
    ELSE IF name \notin DOMAIN entities THEN <<>>
    ELSE TextAddLoop(Ordered(name, pass, ord), 1, max_depth, current_depth,
                     visited \cup {name}, pass, ord)

TextAdd(name, max_depth, current_depth, visited, pass, ord) ==
    IF name \in visited \/ current_depth >= max_depth THEN <<>>
    ELSE IF name \notin DOMAIN entities THEN <<>>
    ELSE TextAddLoop(Ordered(name, pass, ord), 1, max_depth, current_depth,
                     visited \cup {name}, pass, ord)

TextAddLoop(items, i, max_depth, current_depth, visited, pass, ord) ==
    IF i > Len(items) THEN <<>>
    ELSE (IF items[i] \in DOMAIN entities
          THEN <<Repeat("  ", current_depth) \o "- " \o entities[items[i]].type
                 \o " " \o items[i]>>
               \o TextAdd(items[i], max_depth, current_depth + 1, visited, pass, ord)
          ELSE <<>>)
         \o TextAddLoop(items, i + 1, max_depth, current_depth, visited, pass, ord)

\* TextGenerator.generate
TextGenerate(name, d, ord) ==
    IF name \notin DOMAIN entities THEN NotFoundText(name)
    ELSE LET lines == <<"Text Diagram for " \o name, Repeat("=", 40), "\nDependencies:">>
                      \o TextAdd(name, d, 0, {}, "deps", ord)
                      \o <<"\nUsed by:">>
                      \o TextAdd(name, d, 0, {}, "callers", ord)
         IN JoinLines(lines, 1, Len(lines))

\* MermaidDiagramGenerator._get_node_style_and_shape
NodeStyleAndShape(entity_type) ==
    IF entity_type = "class" THEN <<"classNode", "[[", "]]">>
    ELSE IF entity_type = "function" THEN <<"functionNode", "((", "))">>
    ELSE <<"defaultNode", "(", ")">>

\* DefineNode without the test of defined_nodes: a node is defined each time
\* it is met.
DefineNodeAgain(M, entity_id) ==
    IF entity_id \notin DOMAIN entities THEN M
    ELSE LET style == NodeStyleAndShape(entities[entity_id].type)
         IN [M EXCEPT !.lines = Append(@, "    " \o entity_id \o style[2] \o entity_id
                                            \o style[3] \o ":::" \o style[1]),
                      !.defined_nodes = @ \cup {entity_id}]

\* MermaidDiagramGenerator._define_node_if_not_exists; M is
\* [lines, visited_edges, defined_nodes].
DefineNode(M, entity_id) ==
    IF entity_id \in M.defined_nodes \/ entity_id \notin DOMAIN entities THEN M
    ELSE LET style == NodeStyleAndShape(entities[entity_id].type)
         IN [M EXCEPT !.lines = Append(@, "    " \o entity_id \o style[2] \o entity_id
                                            \o style[3] \o ":::" \o style[1]),
                      !.defined_nodes = @ \cup {entity_id}]

\* MermaidDiagramGenerator._add_dependencies (pass "deps") and _add_used_by
\* (pass "callers").
RECURSIVE MermaidAdd(_, _, _, _, _)
RECURSIVE MermaidAddLoop(_, _, _, _, _, _, _)
MermaidAdd(M, name, max_depth, pass, ord) ==
    IF max_depth <= 0 \/ name \notin DOMAIN entities THEN M
    ELSE MermaidAddLoop(DefineNode(M, name), name,
                        Ordered(name, pass, ord), 1, max_depth, pass, ord)

MermaidAddLoop(M, name, items, i, max_depth, pass, ord) ==
    IF i > Len(items) THEN M
    ELSE IF items[i] \notin DOMAIN entities
    THEN MermaidAddLoop(M, name, items, i + 1, max_depth, pass, ord)
    ELSE LET M1 == DefineNode(M, items[i])
             edge == EdgeOf(name, items[i], pass)
             M2 == IF edge \in M1.visited_edges THEN M1
                   ELSE MermaidAdd(
                            [M1 EXCEPT !.visited_edges = @ \cup {edge},
                                       !.lines = Append(@, "    " \o edge[1] \o " --> "
                                                           \o edge[2])],
                            items[i], max_depth - 1, pass, ord)
         IN MermaidAddLoop(M2, name, items, i + 1, max_depth, pass, ord)

\* The Markdown code fence, three backquotes in the source.  A backquote cannot
\* be written in a string of a TLA+ module, so each is an apostrophe here.
Fence == "'''"

\* The lines MermaidDiagramGenerator.generate collects for a name of the graph.
MermaidLines(name, d, ord) ==
    LET M0 == [lines |-> <<Fence \o "mermaid", "graph TD",
                   "    classDef classNode fill:#f9f,stroke:#333,stroke-width:2px,color:#000",
                   "    classDef functionNode fill:#9cf,stroke:#333,stroke-width:2px,color:#000",
                   "    classDef defaultNode fill:#lightgrey,stroke:#333,stroke-width:2px,color:#000">>,
               visited_edges |-> {}, defined_nodes |-> {}]
        M1 == DefineNode(M0, name)
        M2 == MermaidAdd(M1, name, d, "deps", ord)
        M3 == MermaidAdd(M2, name, d, "callers", ord)
    IN Append(M3.lines, Fence)

\* MermaidDiagramGenerator.generate
MermaidGenerate(name, d, ord) ==
    IF name \notin DOMAIN entities THEN NotFoundText(name)
    ELSE JoinLines(MermaidLines(name, d, ord), 1, Len(MermaidLines(name, d, ord)))


\* ----------------------------------------------------------------- actions
NoLevels == [n \in {} |-> 0]
NoPositions == [n \in {} |-> <<>>]

\* The locals of generate, as they are before a call creates them.
NoLocals ==
    /\ all_nodes = {} /\ all_edges = {} /\ visited_paths = {} /\ stack = <<>>
    /\ node_levels = NoLevels /\ visited_bfs = NoLevels /\ queue = <<>>
    /\ cur = NoCur /\ entity_positions = NoPositions /\ pending = <<>>

ClearLocals ==
    /\ all_nodes' = {} /\ all_edges' = {} /\ visited_paths' = {} /\ stack' = <<>>
    /\ node_levels' = NoLevels /\ visited_bfs' = NoLevels /\ queue' = <<>>
    /\ cur' = NoCur /\ entity_positions' = NoPositions /\ pending' = <<>>

\* constants.GeneratorType, and the ASCII generator.
GeneratorTypes == {"text", "mermaid", "ascii"}

\* A generator of one of the three classes is constructed over a graph of the
\* family.
Init ==
    /\ \E R \in Relations, mode \in GraphModes : entities = GraphOf(R, mode)
    /\ pc = "idle"
    /\ entity_name = "" /\ depth = 0
    /\ NoLocals
    /\ surface = EmptySurface
    /\ generator \in GeneratorTypes
    /\ result = ""

\* An ASCII generator constructed over a dependency chain.
InitChain ==
    /\ \E n \in 1..MaxChain : entities = ChainOf(n)
    /\ pc = "idle"
    /\ entity_name = "" /\ depth = 0
    /\ NoLocals
    /\ surface = EmptySurface
    /\ generator = "ascii"
    /\ result = ""

RECURSIVE ReachedIn(_, _, _)
\* The names reached from those of S by at most k edges of the relation R.
ReachedIn(R, S, k) ==
    IF k = 0 THEN S
    ELSE ReachedIn(R, S \cup {e[2] : e \in {f \in R : f[1] \in S}}, k - 1)

\* R has a cycle: an edge whose target leads back to its source.
Cyclic(R) == \E e \in R : e[1] \in ReachedIn(R, {e[2]}, NumNames)

\* An ASCII generator constructed over a graph with a cycle or a self-reference.
InitCyclic ==
    /\ \E R \in Relations, mode \in GraphModes :
           Cyclic(R) /\ entities = GraphOf(R, mode)
    /\ pc = "idle"
    /\ entity_name = "" /\ depth = 0
    /\ NoLocals
    /\ surface = EmptySurface
    /\ generator = "ascii"
    /\ result = ""

\* A Text or Mermaid generator constructed over a graph of the family or over a
\* dependency chain.
InitTextual ==
    /\ \/ \E R \in Relations, mode \in GraphModes : entities = GraphOf(R, mode)
       \/ \E n \in 1..MaxChain : entities = ChainOf(n)
    /\ pc = "idle"
    /\ entity_name = "" /\ depth = 0
    /\ NoLocals
    /\ surface = EmptySurface
    /\ generator \in {"text", "mermaid"}
    /\ result = ""

\* A name longer than one character.
LongName == "Host"

\* An ASCII generator over a graph of one entity, before _draw_box is called
\* on its empty grid.
InitBox ==
    /\ \E n \in Names \cup {LongName}, kind \in Kinds :
           entities = (n :> Entity(n, kind, {}, {}))
    /\ pc = "box"
    /\ entity_name = "" /\ depth = 0
    /\ NoLocals
    /\ surface = EmptySurface
    /\ generator = "ascii"
    /\ result = ""

Callable == pc \in {"idle", "done"}

\* generate(name, d) for a name that is not in self.entities: lines 157-158.
GenerateNotFound(name, d) ==
    /\ generator = "ascii"
    /\ Callable
    /\ name \notin DOMAIN entities
    /\ entity_name' = name /\ depth' = d
    /\ ClearLocals
    /\ result' = NotFoundText(name)
    /\ pc' = "done"
    /\ UNCHANGED <<entities, surface, generator>>

\* ResetGrid without lines 161-162: the grid and the bounds of the call before
\* are kept.
KeepGrid(S) == S

\* The grid and the bounds as lines 161-162 of generate leave them.
ResetGrid(S) == EmptySurface

\* SeedNodes without line 170: nothing is collected before the first call.
SeedNothing(name) == {}

\* all_nodes.add(entity_name): the focal entity is collected even if isolated.
SeedNodes(name) == {name}

\* generate(name, d) up to the first loop iteration of the dependency
\* collection: lines 157-171.
GenerateStart(name, d) ==
    /\ generator = "ascii"
    /\ Callable
    /\ name \in DOMAIN entities
    /\ entity_name' = name /\ depth' = d
    /\ surface' = ResetGrid(surface)
    /\ LET C0 == [stack |-> <<>>, nodes |-> SeedNodes(name), edges |-> {}, visited |-> {}]
           C1 == EnterCollect(C0, name, d, "deps")
       IN SetCollection([C1 EXCEPT !.stack = Unwind(@)])
    /\ node_levels' = NoLevels /\ visited_bfs' = NoLevels /\ queue' = <<>>
    /\ cur' = NoCur /\ entity_positions' = NoPositions /\ pending' = <<>>
    /\ result' = ""
    /\ pc' = "deps"
    /\ UNCHANGED <<entities, generator>>

\* One iteration of for dep_name in entity.dependencies (lines 82-92).
DepStep ==
    /\ pc = "deps" /\ stack # <<>>
    /\ \E other \in stack[Len(stack)].todo :
           SetCollection(CollectIteration(Collection, other, "deps"))
    /\ UNCHANGED <<entities, pc, entity_name, depth, node_levels, visited_bfs,
                   queue, cur, entity_positions, pending, surface, generator, result>>

\* The dependency collection returned; _collect_callers_recursive is called
\* (line 174).
StartCallers ==
    /\ pc = "deps" /\ stack = <<>>
    /\ LET C1 == EnterCollect(Collection, entity_name, depth, "callers")
       IN SetCollection([C1 EXCEPT !.stack = Unwind(@)])
    /\ pc' = "callers"
    /\ UNCHANGED <<entities, entity_name, depth, node_levels, visited_bfs,
                   queue, cur, entity_positions, pending, surface, generator, result>>

\* One iteration of for caller_name in entity.used_by (lines 104-114).
CallerStep ==
    /\ pc = "callers" /\ stack # <<>>
    /\ \E other \in stack[Len(stack)].todo :
           SetCollection(CollectIteration(Collection, other, "callers"))
    /\ UNCHANGED <<entities, pc, entity_name, depth, node_levels, visited_bfs,
                   queue, cur, entity_positions, pending, surface, generator, result>>

\* Both collections returned: the empty check and the start of the dependency
\* sweep (lines 177-196).
StartLevels ==
    /\ pc = "callers" /\ stack = <<>>
    /\ IF all_nodes = {}
       THEN /\ result' = NoEntitiesText(entity_name, depth)
            /\ pc' = "done"
            /\ UNCHANGED <<node_levels, visited_bfs, queue, cur>>
       ELSE /\ SetSweep(StartSweep((entity_name :> 0), "dep"))
            /\ pc' = "bfs_dep"
            /\ UNCHANGED result
    /\ UNCHANGED <<entities, entity_name, depth, all_nodes, all_edges, visited_paths,
                   stack, entity_positions, pending, surface, generator>>

\* The dependency sweep acts on one edge of the node it expands (lines 199-206).
BfsDepStep ==
    /\ pc = "bfs_dep" /\ cur.todo # {}
    /\ \E e \in cur.todo : SetSweep(SweepEdge(Sweep, e, "dep"))
    /\ UNCHANGED <<entities, pc, entity_name, depth, all_nodes, all_edges, visited_paths,
                   stack, entity_positions, pending, surface, generator, result>>

\* The dependency sweep's queue ran empty; the caller sweep starts (lines 209-217).
StartCallerSweep ==
    /\ pc = "bfs_dep" /\ cur.todo = {}
    /\ SetSweep(StartSweep(node_levels, "caller"))
    /\ pc' = "bfs_caller"
    /\ UNCHANGED <<entities, entity_name, depth, all_nodes, all_edges, visited_paths,
                   stack, entity_positions, pending, surface, generator, result>>

\* The caller sweep acts on one edge of the node it expands (lines 220-227).
BfsCallerStep ==
    /\ pc = "bfs_caller" /\ cur.todo # {}
    /\ \E e \in cur.todo : SetSweep(SweepEdge(Sweep, e, "caller"))
    /\ UNCHANGED <<entities, pc, entity_name, depth, all_nodes, all_edges, visited_paths,
                   stack, entity_positions, pending, surface, generator, result>>

\* The fallback, the layout and the drawing of every box (lines 229-305).
LayoutBoxes ==
    /\ pc = "bfs_caller" /\ cur.todo = {}
    /\ LET L == Layout(surface, node_levels, all_nodes)
       IN /\ node_levels' = L.levels
          /\ surface' = L.surface
          /\ entity_positions' = L.positions
    /\ pending' = SortedEdges(all_edges)
    /\ pc' = "arrows"
    /\ UNCHANGED <<entities, entity_name, depth, all_nodes, all_edges, visited_paths,
                   stack, visited_bfs, queue, cur, generator, result>>

\* One iteration of the loop over the sorted edges (lines 308-312).
ArrowStep ==
    /\ pc = "arrows" /\ pending # <<>>
    /\ LET e == Head(pending)
       IN surface' = IF e[1] \in DOMAIN entity_positions /\ e[2] \in DOMAIN entity_positions
                     THEN DrawArrow(surface, entity_positions[e[1]], entity_positions[e[2]])
                     ELSE surface
    /\ pending' = Tail(pending)
    /\ UNCHANGED <<entities, pc, entity_name, depth, all_nodes, all_edges, visited_paths,
                   stack, node_levels, visited_bfs, queue, cur, entity_positions,
                   generator, result>>

\* The header and the rendered grid are returned (lines 314-316).
Render ==
    /\ pc = "arrows" /\ pending = <<>>
    /\ result' = DiagramText(entity_name, depth, surface)
    /\ pc' = "done"
    /\ UNCHANGED <<entities, entity_name, depth, all_nodes, all_edges, visited_paths,
                   stack, node_levels, visited_bfs, queue, cur, entity_positions,
                   pending, surface, generator>>

\* TextGenerator.generate(name, d), each set iterated in the order ord gives
\* it.  The generator keeps nothing from one call to the next: one call is
\* followed.
TextCall(name, d, ord) ==
    /\ generator = "text"
    /\ pc = "idle"
    /\ entity_name' = name /\ depth' = d
    /\ result' = TextGenerate(name, d, ord)
    /\ pc' = "done"
    /\ UNCHANGED <<entities, all_nodes, all_edges, visited_paths, stack, node_levels,
                   visited_bfs, queue, cur, entity_positions, pending, surface, generator>>

\* MermaidDiagramGenerator.generate(name, d), each set iterated in the order
\* ord gives it.  The generator keeps nothing from one call to the next.
MermaidCall(name, d, ord) ==
    /\ generator = "mermaid"
    /\ pc = "idle"
    /\ entity_name' = name /\ depth' = d
    /\ result' = MermaidGenerate(name, d, ord)
    /\ pc' = "done"
    /\ UNCHANGED <<entities, all_nodes, all_edges, visited_paths, stack, node_levels,
                   visited_bfs, queue, cur, entity_positions, pending, surface, generator>>

\* _draw_box called on its own, on an empty grid, for the one entity of the
\* graph at (x, y); the size it returns is recorded as the box's position.
DrawBoxCall(x, y) ==
    /\ pc = "box"
    /\ \E n \in DOMAIN entities :
          LET drawn == DrawBox(surface, entities[n].name, entities[n].type, x, y)
          IN /\ surface' = drawn.surface
             /\ entity_positions' = (n :> <<x, y, drawn.size[1], drawn.size[2]>>)
             /\ entity_name' = n
    /\ pc' = "boxed"
    /\ UNCHANGED <<entities, depth, all_nodes, all_edges, visited_paths, stack,
                   node_levels, visited_bfs, queue, cur, pending, generator, result>>

\* An ASCII generator over no entities, its grid empty and its bounds zero:
\* the state __init__ leaves and the reset of generate restores.
InitGrid ==
    /\ entities = [n \in {} |-> Entity(n, "class", {}, {})]
    /\ pc = "grid"
    /\ entity_name = "" /\ depth = 0
    /\ NoLocals
    /\ surface = EmptySurface
    /\ generator = "ascii"
    /\ result = ""

\* The columns and the rows the calls of the grid specification name.
GridColumns == (-MaxGrid)..MaxGrid
GridRows == 0..MaxGrid

\* Characters _set_char is called with: a blank, a letter of a label, an
\* arrowhead.  Line characters and joints come from the segment calls.
GridChars == {" ", "x", CharArrowRight}

OnGrid == pc \in {"grid", "set", "hseg", "vseg"}

\* The grid specification keeps its grid within MaxCells cells.
GridStep(S, phase) ==
    /\ OnGrid
    /\ Cardinality(DOMAIN S.grid) <= MaxCells
    /\ surface' = S
    /\ pc' = phase
    /\ UNCHANGED <<entities, entity_name, depth, all_nodes, all_edges, visited_paths,
                   stack, node_levels, visited_bfs, queue, cur, entity_positions,
                   pending, generator, result>>

\* _set_char(x, y, char)
SetCharCall(x, y, c) == GridStep(SetChar(surface, x, y, c), "set")

\* _draw_horizontal_segment(x1, y, x2, check_collision)
HorizontalSegmentCall(x1, y, x2, check_collision) ==
    GridStep(DrawHorizontalSegment(surface, x1, y, x2, check_collision), "hseg")

\* _draw_vertical_segment(x, y1, y2, check_collision)
VerticalSegmentCall(x, y1, y2, check_collision) ==
    GridStep(DrawVerticalSegment(surface, x, y1, y2, check_collision), "vseg")

\* An ASCII generator over no entities, before _draw_arrow is called on its
\* empty grid.
InitArrow ==
    /\ entities = [n \in {} |-> Entity(n, "class", {}, {})]
    /\ pc = "arrow"
    /\ entity_name = "" /\ depth = 0
    /\ NoLocals
    /\ surface = EmptySurface
    /\ generator = "ascii"
    /\ result = ""

\* The (x, y, w, h) tuples _draw_arrow is called with: the source box at
\* (1, 1), the target box within MaxReach of it, widths odd and even.
SourceBoxes == {<<1, 1, w, 3>> : w \in {3, 4}}
TargetBoxes ==
    {<<1 + i, 1 + j, w, 3>> : i \in (-MaxReach)..MaxReach,
                              j \in (-MaxReach)..MaxReach, w \in {3, 4}}

\* _draw_arrow(source_pos_dims, target_pos_dims) called on its own; the two
\* tuples are recorded as the positions of "source" and "target".
DrawArrowCall(sp, tp) ==
    /\ pc = "arrow"
    /\ surface' = DrawArrow(surface, sp, tp)
    /\ entity_positions' = ("source" :> sp) @@ ("target" :> tp)
    /\ pc' = "arrowed"
    /\ UNCHANGED <<entities, entity_name, depth, all_nodes, all_edges, visited_paths,
                   stack, node_levels, visited_bfs, queue, cur, pending, generator,
                   result>>

\* -------------------------------------------------------------- the parser
\* The names the parsed files define and refer to.
ParserNames == {NamePool[i] : i \in 1..MaxParsed}

\* A top-level definition of a file, as parse_file reads it: a class with the
\* names of its bases, the names that annotate the parameters of its __init__
\* and the names its methods call, or a function with the names it calls.
\* Each definition here holds at most one such reference.
OneOrNone == {{}} \cup {{n} : n \in ParserNames}
ClassDefs ==
    {[name |-> n, type |-> "class", bases |-> b, hints |-> h, calls |-> c] :
         n \in ParserNames, b \in OneOrNone, h \in OneOrNone, c \in OneOrNone}
FunctionDefs ==
    {[name |-> n, type |-> "function", bases |-> {}, hints |-> {}, calls |-> c] :
         n \in ParserNames, c \in OneOrNone}
Definitions ==
    {d \in ClassDefs \cup FunctionDefs :
         Cardinality(d.bases) + Cardinality(d.hints) + Cardinality(d.calls) <= 1}

\* The files: up to MaxDefs definitions, one after the other.
SourceFiles == UNION {[1..k -> Definitions] : k \in 0..MaxDefs}

\* Entity.add_dependency and Entity.add_used_by on the entity named a.
AddDependency(es, a, b) == [es EXCEPT ![a].dependencies = @ \cup {b}]
AddUsedBy(es, a, b) == [es EXCEPT ![a].used_by = @ \cup {b}]

\* Both ends of a relationship recorded, as lines 73-74 and 89-90 do.
Relate(es, a, b) == AddUsedBy(AddDependency(es, a, b), b, a)

\* The first loop of parse_file at a ClassDef or a top-level FunctionDef: a
\* new Entity takes the name's place in the map; a class gets its bases as
\* dependencies.
Register(es, def) ==
    (def.name :> Entity(def.name, def.type, def.bases, {})) @@ es

RECURSIVE RegisterAll(_, _, _)
RegisterAll(es, file, i) ==
    IF i > Len(file) THEN es ELSE RegisterAll(Register(es, file[i]), file, i + 1)

RECURSIVE RelateAll(_, _, _)
\* Relate(es, a, b) for every b of targets that is a key of the map.
RelateAll(es, a, targets) ==
    IF targets = {} THEN es
    ELSE LET b == CHOOSE t \in targets : TRUE
         IN RelateAll(IF a \in DOMAIN es /\ b \in DOMAIN es THEN Relate(es, a, b) ELSE es,
                      a, targets \ {b})

RECURSIVE HintAll(_, _, _)
\* The first loop at the __init__ methods, which ast.walk reaches after every
\* top-level definition of the file.
HintAll(es, file, i) ==
    IF i > Len(file) THEN es
    ELSE HintAll(RelateAll(es, file[i].name, file[i].hints), file, i + 1)

RECURSIVE CallAll(_, _, _)
\* The second loop of parse_file: the calls, each with the class or function
\* that encloses it as its parent entity.
CallAll(es, file, i) ==
    IF i > Len(file) THEN es
    ELSE CallAll(RelateAll(es, file[i].name, file[i].calls), file, i + 1)

\* parse_file: self.entities after the file is parsed.
ParseFile(es, file) == CallAll(HintAll(RegisterAll(es, file, 1), file, 1), file, 1)

\* A CodeParser as __init__ leaves it: no entities.
InitParser ==
    /\ entities = [n \in {} |-> Entity(n, "class", {}, {})]
    /\ pc = "parser"
    /\ entity_name = "" /\ depth = 0
    /\ NoLocals
    /\ surface = EmptySurface
    /\ generator = ""
    /\ result = ""

\* One iteration of the loop of parse_files.
ParseFileCall(file) ==
    /\ pc = "parser"
    /\ entities' = ParseFile(entities, file)
    /\ UNCHANGED <<pc, entity_name, depth, all_nodes, all_edges, visited_paths,
                   stack, node_levels, visited_bfs, queue, cur, entity_positions,
                   pending, surface, generator, result>>

Depths == 0..MaxDepth

\* The names a call is made with: every name the graph can hold, and Ghost.
CallNames == Names \cup {Ghost}

\* The steps of a call of generate that is under way.
Running ==
    \/ DepStep
    \/ StartCallers
    \/ CallerStep
    \/ StartLevels
    \/ BfsDepStep
    \/ StartCallerSweep
    \/ BfsCallerStep
    \/ LayoutBoxes
    \/ ArrowStep
    \/ Render

\* The steps of a generator of class ASCIIDiagramGenerator, called with the
\* given names and depths.
AsciiNext(names, depths) ==
    \/ \E name \in names, d \in depths : GenerateNotFound(name, d)
    \/ \E name \in names, d \in depths : GenerateStart(name, d)
    \/ Running

Next ==
    \/ AsciiNext(CallNames, Depths)
    \/ \E name \in CallNames, d \in Depths, ord \in IterationOrders : TextCall(name, d, ord)
    \/ \E name \in CallNames, d \in Depths, ord \in IterationOrders : MermaidCall(name, d, ord)

\* Calls on a chain: every name of the longest chain, Ghost, every depth up to
\* the longest chain's length.
ChainNames == {NamePool[i] : i \in 1..(MaxChain + 1)} \cup {Ghost}
NextChain == AsciiNext(ChainNames, 0..MaxChain)

\* Calls of the Text and Mermaid generators, with every name of the longest
\* chain, Ghost, and every depth up to the longest chain's length.
NextTextual ==
    \/ \E name \in ChainNames, d \in 0..MaxChain, ord \in IterationOrders :
           TextCall(name, d, ord)
    \/ \E name \in ChainNames, d \in 0..MaxChain, ord \in IterationOrders :
           MermaidCall(name, d, ord)

NextCyclic == AsciiNext(CallNames, 0..MaxCyclicDepth)

NextGrid ==
    \/ \E x \in GridColumns, y \in GridRows, c \in GridChars : SetCharCall(x, y, c)
    \/ \E x1, x2 \in GridColumns, y \in GridRows, cc \in BOOLEAN :
           HorizontalSegmentCall(x1, y, x2, cc)
    \/ \E x \in GridColumns, y1, y2 \in GridRows, cc \in BOOLEAN :
           VerticalSegmentCall(x, y1, y2, cc)

NextArrow == \E sp \in SourceBoxes, tp \in TargetBoxes : DrawArrowCall(sp, tp)

NextParser == \E file \in SourceFiles : ParseFileCall(file)

NextBox == \E x \in (-MaxCoord)..MaxCoord, y \in (-MaxCoord)..MaxCoord : DrawBoxCall(x, y)

\* A generator of any class over a graph of the family.
Spec == Init /\ [][Next]_vars

\* An ASCII generator over a dependency chain.
SpecChain == InitChain /\ [][NextChain]_vars

\* An ASCII generator over a graph with a cycle or a self-reference.
SpecCyclic == InitCyclic /\ [][NextCyclic]_vars

\* A Text or Mermaid generator over a graph of the family or a chain.
SpecTextual == InitTextual /\ [][NextTextual]_vars

\* _draw_box alone.
SpecBox == InitBox /\ [][NextBox]_vars

\* A CodeParser that parses one file after another.
SpecParser == InitParser /\ [][NextParser]_vars

\* _draw_arrow alone, on an empty grid.
SpecArrow == InitArrow /\ [][NextArrow]_vars

\* _set_char and the two segment drawers alone, on a grid that starts empty.
SpecGrid == InitGrid /\ [][NextGrid]_vars



\* ------------------------------------------------------------- properties
\* The cells of the w by h rectangle whose top left corner is (x, y).
Rect(x, y, w, h) == {<<x + i, y + j>> : i \in 0..(w - 1), j \in 0..(h - 1)}

\* The grid of S holds at (x, y) a box around text: corners '+', borders '-'
\* and '|', and text between the two '|' of the middle row.
HoldsBox(S, x, y, text) ==
    LET w == Len(text) + 2
    IN \A i \in 0..(w - 1), j \in 0..2 :
           /\ <<x + i, y + j>> \in DOMAIN S.grid
           /\ S.grid[<<x + i, y + j>>] =
                  IF i \in {0, w - 1} THEN (IF j = 1 THEN "|" ELSE "+")
                  ELSE IF j = 1 THEN SubSeq(text, i, i) ELSE "-"

\* The text of the box of a present entity, written out.
LabelOf(n) == " " \o entities[n].name \o " (" \o entities[n].type \o ") "

\* The grid of S is nothing but the box of the present entity n, placed where
\* entity_positions says.
OnlyBoxOf(S, n) ==
    /\ n \in DOMAIN entity_positions
    /\ LET p == entity_positions[n]
       IN /\ DOMAIN S.grid = Rect(p[1], p[2], Len(LabelOf(n)) + 2, 3)
          /\ HoldsBox(S, p[1], p[2], LabelOf(n))

\* A call generate(entity_name, depth) of the ASCII generator was made.
AsciiCalled == generator = "ascii" /\ pc \notin {"idle", "box", "boxed"}

\* The boxes are drawn: the call is at its arrows or has returned a diagram.
BoxesDrawn == pc = "arrows" \/ (pc = "done" /\ entity_positions # NoPositions)

\* C1: a call of generate with a name that is not a key of the graph returns
\* exactly the string Entity '<name>' not found, for every depth, from each of
\* the three generators.
C1_NotFoundReturned ==
    (pc \notin {"idle", "box", "boxed"} /\ entity_name \notin DOMAIN entities) =>
        /\ pc = "done"
        /\ result = "Entity '" \o entity_name \o "' not found"

\* A generator returned from a call with a name that other entities refer to
\* but that is no key of the graph, at a depth above 0.
C1_Witness ==
    /\ pc = "done" /\ depth > 0
    /\ entity_name \notin DOMAIN entities
    /\ \E n \in DOMAIN entities : entity_name \in entities[n].dependencies
    /\ generator = "mermaid"
    /\ result # ""

\* C2: at depth 0 the ASCII generator collects the focal entity alone and no
\* edge, whatever the graph, and the grid it renders holds the focal entity's
\* box and no other cell.
C2_DepthZeroOnlyFocal ==
    (AsciiCalled /\ depth = 0 /\ entity_name \in DOMAIN entities) =>
        /\ all_nodes = {entity_name}
        /\ all_edges = {}
        /\ pc \in {"arrows", "done"} =>
               /\ pending = <<>>
               /\ DOMAIN entity_positions = {entity_name}
               /\ OnlyBoxOf(surface, entity_name)

\* A depth 0 diagram was returned for an entity that depends on itself and
\* on another present entity, and is used by a third.
C2_Witness ==
    /\ AsciiCalled /\ pc = "done" /\ depth = 0
    /\ entity_name \in DOMAIN entities
    /\ entity_name \in entities[entity_name].dependencies
    /\ \E m \in DOMAIN entities \ {entity_name} :
           m \in entities[entity_name].dependencies
    /\ entities[entity_name].used_by # {}
    /\ result # ""

\* The collection of the call has returned.
Collected == pc \in {"bfs_dep", "bfs_caller", "arrows", "done"}

\* The present entities one step of a pass away from an entity of S.
StepFrom(S, pass) ==
    {m \in DOMAIN entities : \E n \in S \cap DOMAIN entities : m \in Related(n, pass)}

RECURSIVE WithinSteps(_, _, _)
\* The present entities at most k steps of a pass away from an entity of S.
WithinSteps(S, k, pass) ==
    IF k = 0 THEN S ELSE WithinSteps(S \cup StepFrom(S, pass), k - 1, pass)

\* The dependency edges on the paths of at most k edges that leave name
\* through present entities.
PathEdges(name, k) ==
    {e \in WithinSteps({name}, k - 1, "deps") \X DOMAIN entities :
         e[2] \in entities[e[1]].dependencies}

\* C3: for a present focal entity and a depth of at least 1, whatever order
\* the sets are iterated in, the collection holds every entity within depth
\* dependency edges of the focal entity with every edge on the way, and every
\* entity within depth usedBy steps of it.
C3_CollectionComplete ==
    (AsciiCalled /\ Collected /\ entity_name \in DOMAIN entities /\ depth >= 1) =>
        /\ WithinSteps({entity_name}, depth, "deps") \subseteq all_nodes
        /\ PathEdges(entity_name, depth) \subseteq all_edges
        /\ WithinSteps({entity_name}, depth, "callers") \subseteq all_nodes

RECURSIVE SortedCollection(_, _)
\* A collection call run to its return, every set iterated in sorted order.
SortedCollection(C, pass) ==
    IF C.stack = <<>> THEN C
    ELSE SortedCollection(
             CollectIteration(C, MinName(C.stack[Len(C.stack)].todo), pass), pass)

\* What lines 164-174 collect for the call, every set iterated in sorted order.
SortedCollected ==
    LET C0 == [stack |-> <<>>, nodes |-> {entity_name}, edges |-> {}, visited |-> {}]
        C1 == EnterCollect(C0, entity_name, depth, "deps")
        C2 == SortedCollection([C1 EXCEPT !.stack = Unwind(@)], "deps")
        C3 == EnterCollect(C2, entity_name, depth, "callers")
    IN SortedCollection([C3 EXCEPT !.stack = Unwind(@)], "callers")

RECURSIVE SortedSweep(_, _)
\* A level sweep run until its queue is empty, the edges taken in sorted order.
SortedSweep(B, sweep) ==
    IF B.cur.todo = {} THEN B
    ELSE SortedSweep(SweepEdge(B, MinEdge(B.cur.todo), sweep), sweep)

RECURSIVE ArrowsDrawn(_, _, _, _)
\* The surface after the arrows of the edges es[i..] are drawn in this order.
ArrowsDrawn(S, positions, es, i) ==
    IF i > Len(es) THEN S
    ELSE ArrowsDrawn(IF es[i][1] \in DOMAIN positions /\ es[i][2] \in DOMAIN positions
                     THEN DrawArrow(S, positions[es[i][1]], positions[es[i][2]])
                     ELSE S,
                     positions, es, i + 1)

\* The string lines 187-316 return for the collected nodes and edges, the
\* sweeps taking their edges in sorted order.
SortedDiagram ==
    LET dep == SortedSweep(StartSweep((entity_name :> 0), "dep"), "dep")
        caller == SortedSweep(StartSweep(dep.levels, "caller"), "caller")
        L == Layout(EmptySurface, caller.levels, all_nodes)
    IN DiagramText(entity_name, depth,
                   ArrowsDrawn(L.surface, L.positions, SortedEdges(all_edges), 1))

\* C4: a call of the ASCII generator returns one string for a graph, a focal
\* entity and a depth, whatever order the sets are iterated in: each run
\* collects the nodes and edges, and returns the string, of the run that
\* iterates every set in sorted order.
C4_OrderIndependent ==
    (AsciiCalled /\ pc = "done" /\ entity_name \in DOMAIN entities) =>
        /\ all_nodes = SortedCollected.nodes
        /\ all_edges = SortedCollected.edges
        /\ result = SortedDiagram

\* a and b form the two-entity cycle with mutually inverse used_by sets.
TwoCycle(a, b) ==
    /\ a # b
    /\ entities[a].dependencies = {b} /\ entities[a].used_by = {b}
    /\ entities[b].dependencies = {a} /\ entities[b].used_by = {a}

\* A collection step that entered a call for a related entity.
CallEntered == pc \in {"deps", "callers"} /\ pc' = pc /\ Len(stack') > Len(stack)

\* Every name the graph mentions, as a key or as a related name.
Mentioned ==
    DOMAIN entities
    \cup UNION {entities[n].dependencies \cup entities[n].used_by : n \in DOMAIN entities}

RECURSIVE TodoLeft(_, _)
\* The number of elements the loops of the frames stk[i..] have yet to iterate.
TodoLeft(stk, i) ==
    IF i > Len(stk) THEN 0 ELSE Cardinality(stk[i].todo) + TodoLeft(stk, i + 1)

\* What a collection has left to do: a pair not yet visited counts for more
\* than the loop of the call that its traversal can enter.
CollectWork ==
    (Cardinality(Mentioned \X Mentioned) - Cardinality(visited_paths))
        * (Cardinality(Mentioned) + 1)
    + TodoLeft(stack, 1)

RECURSIVE LevelSlack(_)
\* How far the levels a sweep has recorded for the nodes of S can still move
\* towards 0; a node without a level counts as one beyond the deepest level.
LevelSlack(S) ==
    IF S = {} THEN 0
    ELSE LET n == CHOOSE m \in S : TRUE
         IN (IF n \in DOMAIN visited_bfs THEN Abs(visited_bfs[n]) ELSE depth + 2)
            + LevelSlack(S \ {n})

\* What a sweep has left to do: a level that can still improve counts for more
\* than the queue entry its improvement adds, a queue entry for more than the
\* edges its expansion acts on.
SweepWork ==
    LevelSlack(all_nodes) * (Cardinality(all_edges) + 2)
    + Len(queue) * (Cardinality(all_edges) + 1)
    + Cardinality(cur.todo)

\* The phases of generate, counted from the return backwards, and the work
\* left in the phase.
Rank ==
    CASE pc = "deps" -> <<5, CollectWork>>
      [] pc = "callers" -> <<4, CollectWork>>
      [] pc = "bfs_dep" -> <<3, SweepWork>>
      [] pc = "bfs_caller" -> <<2, SweepWork>>
      [] pc = "arrows" -> <<1, Len(pending)>>
      [] OTHER -> <<0, 0>>

\* r is a pair of naturals that comes before q in the lexicographic order.
RankBelow(r, q) ==
    /\ r[1] >= 0 /\ r[2] >= 0
    /\ r[1] < q[1] \/ (r[1] = q[1] /\ r[2] < q[2])

\* The guard of one of the steps of Running holds: the innermost collection
\* call has an element to iterate or the collection has returned; a sweep,
\* the arrow loop and the rendering always have their next step.
CanStep ==
    \/ pc \in {"deps", "callers"} /\ (stack = <<>> \/ stack[Len(stack)].todo # {})
    \/ pc \in {"bfs_dep", "bfs_caller", "arrows"}

\* C5: on graphs with cycles or self-references every call of generate comes
\* to its return, for every depth: a call under way can always take a step,
\* and each step brings it closer to the return by a measure that cannot fall
\* for ever.  No pair is traversed twice: a collection step that enters a call
\* for a related entity has put a new pair into visited_paths.  On the
\* two-entity cycle with inverse used_by sets a call at depth 1 or more
\* collects exactly the two edges (a, b) and (b, a).
C5_CyclesTerminate ==
    /\ [](pc \notin {"idle", "done"} => CanStep)
    /\ [][pc \notin {"idle", "done"} => RankBelow(Rank', Rank)]_vars
    /\ [][CallEntered => visited_paths' # visited_paths /\ visited_paths \subseteq visited_paths']_vars
    /\ [](\A a, b \in DOMAIN entities :
             (TwoCycle(a, b) /\ AsciiCalled /\ Collected /\ entity_name = a /\ depth >= 1)
                 => all_edges = {<<a, b>>, <<b, a>>})

\* The diagram of a two-entity cycle was returned from a call at the largest
\* depth, with one edge in each direction.
C5_Witness ==
    /\ AsciiCalled /\ pc = "done" /\ depth = MaxCyclicDepth
    /\ entity_name \in DOMAIN entities
    /\ \E b \in DOMAIN entities : TwoCycle(entity_name, b)
                                   /\ all_edges = {<<entity_name, b>>, <<b, entity_name>>}
    /\ entity_positions # NoPositions
    /\ result # ""

\* The graph is the chain E0 -> E1 -> ... -> En of n + 1 entities, with inverse
\* used_by sets; E(k) is its entity Ek.
ChainLength == Cardinality(DOMAIN entities) - 1
E(k) == NamePool[k + 1]
ChainEdges == {<<E(k - 1), E(k)>> : k \in 1..ChainLength}
IsChain ==
    /\ DOMAIN entities = {E(k) : k \in 0..ChainLength}
    /\ \A k \in 0..ChainLength :
           /\ entities[E(k)].dependencies = (IF k < ChainLength THEN {E(k + 1)} ELSE {})
           /\ entities[E(k)].used_by = (IF k > 0 THEN {E(k - 1)} ELSE {})

\* Every entity of the graph has its box in the grid where entity_positions
\* says, and no two boxes share a cell.
AllBoxesApart ==
    /\ DOMAIN entity_positions = DOMAIN entities
    /\ \A n \in DOMAIN entities :
           HoldsBox(surface, entity_positions[n][1], entity_positions[n][2], LabelOf(n))
    /\ \A n, m \in DOMAIN entities :
           n # m => <<entity_positions[n][1], entity_positions[n][2]>>
                        # <<entity_positions[m][1], entity_positions[m][2]>>
                    /\ Rect(entity_positions[n][1], entity_positions[n][2],
                            entity_positions[n][3], entity_positions[n][4])
                       \cap Rect(entity_positions[m][1], entity_positions[m][2],
                                 entity_positions[m][3], entity_positions[m][4]) = {}

\* C6: on the chain E0 -> ... -> En, generate(E0, n) collects exactly the n
\* chain edges, gives Ek the level k, and lays out n + 1 boxes at n + 1
\* distinct positions.
C6_ChainForward ==
    (AsciiCalled /\ IsChain /\ entity_name = E(0) /\ depth = ChainLength) =>
        /\ Collected => all_edges = ChainEdges
                        /\ all_nodes = DOMAIN entities
        /\ BoxesDrawn => /\ \A k \in 0..ChainLength : node_levels[E(k)] = k
                         /\ AllBoxesApart

\* The diagram of the longest chain was returned from a call at its first
\* entity.
C6_Witness ==
    /\ AsciiCalled /\ pc = "done" /\ IsChain
    /\ ChainLength = MaxChain
    /\ entity_name = E(0) /\ depth = ChainLength
    /\ Cardinality(DOMAIN entity_positions) = MaxChain + 1
    /\ result # ""

\* C7: on the same chain, generate(En, n) collects exactly the n chain edges,
\* each oriented from the caller to the callee, and gives the callers En-1,
\* En-2, ..., E0 the levels -1, -2, ..., -n.
C7_ChainBackward ==
    (AsciiCalled /\ IsChain /\ entity_name = E(ChainLength) /\ depth = ChainLength) =>
        /\ Collected => all_edges = ChainEdges
        /\ BoxesDrawn => \A k \in 0..ChainLength :
                             node_levels[E(ChainLength - k)] = 0 - k

\* The diagram of the longest chain was returned from a call at its last
\* entity.
C7_Witness ==
    /\ AsciiCalled /\ pc = "done" /\ IsChain
    /\ ChainLength = MaxChain
    /\ entity_name = E(ChainLength) /\ depth = ChainLength
    /\ node_levels[E(0)] < 0
    /\ result # ""

\* f's only dependency is g and g's only user is f.
OnlyDependency(f, g) ==
    /\ f # g
    /\ entities[f].dependencies = {g}
    /\ entities[g].used_by = {f}

\* The diagram of f and g alone: two boxes, f at level 0 and g at level 1 to
\* its right, and one connector, a horizontal path from the cell right of f's
\* right border to a single '>' in the cell left of g's left border; the grid
\* holds no other cell.
OneArrowDrawn(f, g) ==
    /\ DOMAIN entity_positions = {f, g}
    /\ node_levels[f] = 0 /\ node_levels[g] = 1
    /\ all_edges = {<<f, g>>}
    /\ LET pf == entity_positions[f]
           pg == entity_positions[g]
           row == pf[2] + 1
           path == {<<x, row>> : x \in (pf[1] + pf[3])..(pg[1] - 2)}
           head == <<pg[1] - 1, row>>
       IN /\ pg[1] > pf[1] + pf[3] + 1 /\ pg[2] = pf[2]
          /\ HoldsBox(surface, pf[1], pf[2], LabelOf(f))
          /\ HoldsBox(surface, pg[1], pg[2], LabelOf(g))
          /\ DOMAIN surface.grid =
                 Rect(pf[1], pf[2], Len(LabelOf(f)) + 2, 3)
                 \cup Rect(pg[1], pg[2], Len(LabelOf(g)) + 2, 3)
                 \cup path \cup {head}
          /\ \A c \in path : surface.grid[c] \in {"-", "+"}
          /\ surface.grid[head] = ">"

\* C8 as the claim words it: where f's only dependency is g and g's only user
\* is f, generate(f, 1) draws two boxes, f at level 0 and g at level 1 to its
\* right, and one connector from f to g, and nothing else.  It fails where f
\* has a user of its own: the caller pass (lines 104-114) collects that user
\* and the diagram holds its box and a second connector.
C8_OneArrowAsClaimed ==
    \A f, g \in DOMAIN entities :
        (AsciiCalled /\ pc = "done" /\ entity_name = f /\ depth = 1 /\ OnlyDependency(f, g)) =>
            OneArrowDrawn(f, g)

\* C8, amended: where f's only dependency is g, g's only user is f and f
\* itself has no user, generate(f, 1) draws two boxes, f at level 0 and g at
\* level 1 to its right, and one connector: a horizontal path from the cell
\* right of f's right border to a single '>' in the cell left of g's left
\* border; the grid holds no other cell.
C8_OneArrow ==
    \A f, g \in DOMAIN entities :
        (/\ AsciiCalled /\ pc = "done" /\ entity_name = f /\ depth = 1
         /\ OnlyDependency(f, g)
         /\ entities[f].used_by = {}) =>
            OneArrowDrawn(f, g)

\* The diagram of such a pair, the focal entity without a user, was returned,
\* in a graph that holds a third entity.
C8_Witness ==
    /\ AsciiCalled /\ pc = "done" /\ depth = 1
    /\ \E g \in DOMAIN entities :
           /\ entity_name \in DOMAIN entities
           /\ OnlyDependency(entity_name, g)
           /\ entities[entity_name].used_by = {}
    /\ Cardinality(DOMAIN entities) > 2
    /\ Cardinality(DOMAIN surface.grid) > 0
    /\ result # ""

\* C9: _draw_box writes a rectangle 3 rows tall and len(" name (kind) ") + 2
\* columns wide, with '+' corners, '-' and '|' borders and " name (kind) "
\* between the '|' of the middle row, and nothing else; the size it returns
\* is that of the rectangle and that the layout computes for the node.
C9_BoxMatchesSize ==
    pc = "boxed" =>
        LET p == entity_positions[entity_name]
        IN /\ p[3] = Len(LabelOf(entity_name)) + 2 /\ p[4] = 3
           /\ DOMAIN surface.grid = Rect(p[1], p[2], p[3], p[4])
           /\ HoldsBox(surface, p[1], p[2], LabelOf(entity_name))
           /\ BoxDimensions(entity_name) = <<p[3], p[4]>>
           /\ surface.min_x = p[1] /\ surface.max_x = p[1] + p[3]
           /\ surface.min_y = p[2] /\ surface.max_y = p[2] + p[4]

\* The box of the entity with the long name was drawn at negative coordinates.
C9_Witness ==
    /\ pc = "boxed" /\ entity_name = LongName
    /\ entity_positions[entity_name][1] < 0 /\ entity_positions[entity_name][2] < 0
    /\ Cardinality(DOMAIN surface.grid) = 3 * (Len(LabelOf(LongName)) + 2)

\* The present entity n has no relationship to a present entity.
Isolated(n) ==
    (entities[n].dependencies \cup entities[n].used_by) \cap DOMAIN entities = {}

\* The three rows of the box around text.
BoxRows(text) ==
    "+" \o Repeat("-", Len(text)) \o "+\n|" \o text \o "|\n+"
    \o Repeat("-", Len(text)) \o "+"

\* C10: the focal entity is always collected; for a present focal entity
\* without a relationship to a present entity generate returns the header and
\* the focal entity's box alone, never the message of an empty collection
\* and never the marker of an empty grid.
C10_IsolatedFocalDrawn ==
    (AsciiCalled /\ entity_name \in DOMAIN entities) =>
        /\ entity_name \in all_nodes
        /\ (Isolated(entity_name) /\ pc = "done") =>
               LET header == "ASCII Diagram for " \o entity_name
                             \o " (depth " \o ToString(depth) \o "):"
               IN /\ all_nodes = {entity_name}
                  /\ OnlyBoxOf(surface, entity_name)
                  /\ result = header \o "\n" \o Repeat("=", Len(header)) \o "\n\n"
                              \o BoxRows(LabelOf(entity_name))

\* A diagram was returned at a depth above 0 for an entity whose only
\* relationship is to a name that is no key of the graph.
C10_Witness ==
    /\ AsciiCalled /\ pc = "done" /\ depth > 0
    /\ entity_name \in DOMAIN entities
    /\ Isolated(entity_name)
    /\ entities[entity_name].dependencies # {}
    /\ result # ""

\* The boxes are drawn and no arrow is yet.
OnlyBoxesDrawn == pc = "arrows" /\ Len(pending) = Cardinality(all_edges)

\* C11: whatever the graph names that it does not hold, every collected node
\* is a key of the graph and both ends of every collected edge are collected
\* nodes; every box is the box of an entity of the graph, as wide as its
\* label asks, and none is the placeholder of a name without details.
C11_NoDanglingCollected ==
    AsciiCalled =>
        /\ all_nodes \subseteq DOMAIN entities
        /\ \A e \in all_edges : e[1] \in all_nodes /\ e[2] \in all_nodes
        /\ DOMAIN entity_positions \subseteq DOMAIN entities
        /\ \A n \in DOMAIN entity_positions :
               /\ entity_positions[n][3] = Len(LabelOf(n)) + 2
               /\ OnlyBoxesDrawn =>
                      HoldsBox(surface, entity_positions[n][1], entity_positions[n][2],
                               LabelOf(n))

\* A diagram of two or more boxes was returned for a focal entity that names
\* an absent entity among its dependencies and among its users.
C11_Witness ==
    /\ AsciiCalled /\ pc = "done" /\ depth > 0
    /\ entity_name \in DOMAIN entities
    /\ entities[entity_name].dependencies \ DOMAIN entities # {}
    /\ entities[entity_name].used_by \ DOMAIN entities # {}
    /\ Cardinality(DOMAIN entity_positions) >= 2
    /\ all_edges # {}

\* A call of generate begins with this step.
CallBegins == pc \in {"idle", "done"} /\ pc' \notin {"idle", "done"}

\* The grid a fresh generator holds after it has drawn the boxes and the
\* arrows of the collected nodes, levels and edges.
DrawnAfresh ==
    LET L == Layout(EmptySurface, node_levels, all_nodes)
    IN ArrowsDrawn(L.surface, L.positions, SortedEdges(all_edges), 1)

\* C12: nothing crosses from one call of generate to the next on the same
\* generator.  A call begins in the state in which a fresh generator begins
\* it: empty grid, zero bounds, the focal entity alone collected before the
\* first iteration.  The string a call returns is the string drawn on a fresh
\* grid for what the call collected, and a call with an unknown name returns
\* its message whatever was drawn before.
C12_NothingCrossesCalls ==
    /\ [][CallBegins =>
             /\ surface' = EmptySurface
             /\ visited_paths' = {} /\ all_edges' = {}
             /\ all_nodes' = {entity_name'}
             /\ node_levels' = NoLevels /\ visited_bfs' = NoLevels
             /\ queue' = <<>> /\ cur' = NoCur
             /\ entity_positions' = NoPositions /\ pending' = <<>>
             /\ result' = ""]_vars
    /\ [](AsciiCalled /\ pc = "done" =>
             IF entity_name \in DOMAIN entities
             THEN /\ surface = DrawnAfresh
                  /\ result = DiagramText(entity_name, depth, DrawnAfresh)
             ELSE result = "Entity '" \o entity_name \o "' not found")

\* A call with an unknown name has returned on a generator whose grid still
\* holds the diagram of the call before.
C12_Witness ==
    /\ AsciiCalled /\ pc = "done"
    /\ entity_name \notin DOMAIN entities
    /\ Cardinality(DOMAIN surface.grid) > 3 * 13

\* The lines of the string s: what stands between its line breaks.
LinesOf(s) ==
    LET breaks == SortedInts({i \in 1..Len(s) : SubSeq(s, i, i) = "\n"}
                             \cup {0, Len(s) + 1})
    IN [k \in 1..(Len(breaks) - 1) |-> SubSeq(s, breaks[k] + 1, breaks[k + 1] - 1)]

\* The lines of the section of a text diagram that the heading opens, up to
\* the empty line before the next heading or to the end.
SectionOf(lines, heading) ==
    LET from == CHOOSE k \in 1..Len(lines) : lines[k] = heading
        ends == {k \in (from + 1)..Len(lines) : lines[k] = ""}
        to == IF ends = {} THEN Len(lines)
              ELSE (CHOOSE k \in ends : \A m \in ends : k <= m) - 1
    IN SubSeq(lines, from + 1, to)

\* No entity occurs twice in the sequence p.
Distinct(p) == \A i, j \in 1..Len(p) : p[i] = p[j] => i = j

RECURSIVE DependencyPaths(_, _)
\* The dependency paths of k edges from the entity n through entities of the
\* graph that pass no entity twice before their end.
DependencyPaths(n, k) ==
    IF k = 0 THEN {<<n>>}
    ELSE {Append(px[1], px[2]) :
              px \in {qx \in DependencyPaths(n, k - 1) \X DOMAIN entities :
                          /\ Distinct(qx[1])
                          /\ qx[2] \in entities[qx[1][Len(qx[1])]].dependencies}}

\* The line of the Dependencies section for the entity at the end of a path.
PathLine(p) ==
    Repeat(" ", 2 * (Len(p) - 2)) \o "- " \o entities[p[Len(p)]].type
    \o " " \o p[Len(p)]

\* A call generate(entity_name, depth) of the Text generator has returned for
\* an entity of the graph.
TextReturned ==
    generator = "text" /\ pc = "done" /\ entity_name \in DOMAIN entities

\* C13: in the Dependencies section of a text diagram, the entity at the end
\* of every dependency path of d edges from the focal entity, 1 <= d <= depth,
\* is listed with an indent of 2 * (d - 1) spaces, once for each such path,
\* and the section lists nothing else: nothing along a path longer than depth.
\* A path here passes no entity twice before its end.  On the chain of five
\* entities at depth 4 the four nested lines appear.
C13_TextDepthBound ==
    TextReturned =>
        LET section == SectionOf(LinesOf(result), "Dependencies:")
            paths == UNION {DependencyPaths(entity_name, d) : d \in 1..depth}
        IN /\ \A p \in paths :
                  Cardinality({k \in 1..Len(section) : section[k] = PathLine(p)})
                      = Cardinality({q \in paths : PathLine(q) = PathLine(p)})
           /\ \A k \in 1..Len(section) : \E p \in paths : section[k] = PathLine(p)

\* The text diagram of the chain of five entities was returned from a call at
\* its first entity at depth 4, the last entity listed under six spaces.
C13_Witness ==
    /\ TextReturned /\ IsChain /\ ChainLength = MaxChain
    /\ entity_name = E(0) /\ depth = MaxChain
    /\ Len(SectionOf(LinesOf(result), "Dependencies:")) = MaxChain

\* The line that defines the node of the entity n in a Mermaid diagram.
NodeLine(n) ==
    "    " \o n
    \o (IF entities[n].type = "class" THEN "[[" \o n \o "]]:::classNode"
        ELSE "((" \o n \o ")):::functionNode")

\* C14: whatever order the sets are iterated in, the Mermaid diagram defines
\* the node of every entity within depth dependency edges of the focal entity
\* and holds the line X --> Y for every dependency edge on the way.
C14_MermaidComplete ==
    (generator = "mermaid" /\ pc = "done" /\ entity_name \in DOMAIN entities /\ depth >= 1) =>
        LET lines == LinesOf(result)
            Emitted(l) == \E k \in 1..Len(lines) : lines[k] = l
        IN /\ \A n \in WithinSteps({entity_name}, depth, "deps") : Emitted(NodeLine(n))
           /\ \A e \in PathEdges(entity_name, depth) :
                  Emitted("    " \o e[1] \o " --> " \o e[2])

\* What _collect_callers_recursive collects from the focal entity when it is
\* handed an empty visited set of its own, every set iterated in sorted order.
CallersAlone ==
    LET C0 == [stack |-> <<>>, nodes |-> {entity_name}, edges |-> {}, visited |-> {}]
        C1 == EnterCollect(C0, entity_name, depth, "callers")
    IN SortedCollection([C1 EXCEPT !.stack = Unwind(@)], "callers")

\* C15: the caller pass loses no edge by sharing visited_paths with the
\* dependency pass: every edge it collects from the focal entity with an
\* empty visited set of its own is among the edges of the call.
C15_SharedVisitedLosesNothing ==
    (AsciiCalled /\ Collected /\ entity_name \in DOMAIN entities) =>
        CallersAlone.edges \subseteq all_edges

\* The pairs of R turned round.
Inverse(R) == {<<e[2], e[1]>> : e \in R}

\* The pairs (source, target) the graph holds, by either relation.
GraphEdges ==
    {e \in (DOMAIN entities) \X (DOMAIN entities) :
        e[2] \in entities[e[1]].dependencies \/ e[1] \in entities[e[2]].used_by}

\* C16: at every point of a call, every collected node other than the focal
\* entity is joined to it by at most depth collected edges, all followed from
\* source to target or all from target to source, and every collected edge is
\* an edge of the graph: nothing farther than depth hops both ways is collected.
C16_CollectionDepthBound ==
    AsciiCalled =>
        /\ all_edges \subseteq GraphEdges
        /\ \A n \in all_nodes \ {entity_name} :
               \/ n \in ReachedIn(all_edges, {entity_name}, depth)
               \/ n \in ReachedIn(Inverse(all_edges), {entity_name}, depth)
        /\ all_nodes \subseteq ReachedIn(GraphEdges, {entity_name}, depth)
                               \cup ReachedIn(Inverse(GraphEdges), {entity_name}, depth)

\* A call returned with a node exactly depth edges down the dependency side
\* and a caller of the focal entity, while an entity the graph reaches from
\* the focal entity lies beyond depth edges and is not collected.
C16_Witness ==
    /\ AsciiCalled /\ pc = "done" /\ depth >= 1
    /\ \E n \in all_nodes :
           /\ n \in ReachedIn(all_edges, {entity_name}, depth)
           /\ n \notin ReachedIn(all_edges, {entity_name}, depth - 1)
    /\ \E m \in all_nodes \ {entity_name} :
           m \in ReachedIn(Inverse(all_edges), {entity_name}, depth)
    /\ \E far \in ReachedIn(GraphEdges, {entity_name}, NumNames) : far \notin all_nodes

\* Both sweeps ran their queues empty and the fallback loop is next.
SweepsDone == AsciiCalled /\ pc = "bfs_caller" /\ cur.todo = {}

\* C17: while the sweeps run the focal entity has level 0 and no other node
\* has; when both have run every collected node has a level and nothing else
\* has, so the fallback to level 0 changes nothing, and the levels the layout
\* uses have the collected nodes as their domain, 0 for the focal entity only.
C17_LevelsCoverNodes ==
    /\ (AsciiCalled /\ pc \in {"bfs_dep", "bfs_caller"}) =>
           /\ entity_name \in DOMAIN node_levels
           /\ \A n \in DOMAIN node_levels : node_levels[n] = 0 <=> n = entity_name
    /\ SweepsDone =>
           /\ DOMAIN node_levels = all_nodes
           /\ WithFallback(node_levels, all_nodes) = node_levels
    /\ (AsciiCalled /\ pc \in {"arrows", "done"} /\ all_nodes # {}
            /\ entity_name \in DOMAIN entities) =>
           /\ DOMAIN node_levels = all_nodes
           /\ \A n \in all_nodes : node_levels[n] = 0 <=> n = entity_name

\* Both sweeps ran over a collected cycle through the focal entity, with a
\* node on the dependency side and a node on the caller side.
C17_Witness ==
    /\ SweepsDone
    /\ \E e \in all_edges :
           /\ e[2] = entity_name /\ e[1] # entity_name
           /\ e[1] \in ReachedIn(all_edges, {entity_name}, depth)
    /\ \E n \in all_nodes : node_levels[n] > 0
    /\ \E n \in all_nodes : node_levels[n] < 0

\* The least number of edges of R that lead from the focal entity to n, or
\* more than any path has when none does.
Distance(R, n) ==
    LET far == Cardinality(all_nodes) + 1
        near == {k \in 0..far : n \in ReachedIn(R, {entity_name}, k)}
    IN IF near = {} THEN far ELSE CHOOSE k \in near : \A j \in near : k <= j

\* C18: in the levels the layout uses, the absolute value of a node's level
\* is the smaller of its distance from the focal entity along the collected
\* edges and its distance against them.
C18_ClosestPathWins ==
    (AsciiCalled /\ pc \in {"arrows", "done"} /\ all_nodes # {}
         /\ entity_name \in DOMAIN entities) =>
        \A n \in all_nodes :
            Abs(node_levels[n]) = Min(Distance(all_edges, n),
                                      Distance(Inverse(all_edges), n))

RECURSIVE WalkEnds(_, _, _)
\* The names at which a walk of exactly k edges of R from a name of S ends.
WalkEnds(R, S, k) ==
    IF k = 0 THEN S
    ELSE WalkEnds(R, {e[2] : e \in {f \in R : f[1] \in S}}, k - 1)

\* C19: at every point from the first sweep on, a node of level k > 0 ends a
\* walk of exactly k collected edges from the focal entity, and a node of
\* level -k < 0 starts a walk of exactly k collected edges to the focal entity.
C19_LevelSignIsDirection ==
    (AsciiCalled /\ pc \in {"bfs_dep", "bfs_caller", "arrows", "done"}
         /\ entity_name \in DOMAIN entities) =>
        \A n \in DOMAIN node_levels :
            /\ node_levels[n] > 0 =>
                   n \in WalkEnds(all_edges, {entity_name}, node_levels[n])
            /\ node_levels[n] < 0 =>
                   n \in WalkEnds(Inverse(all_edges), {entity_name}, -node_levels[n])

\* A call at depth 2 or more returned with a node on either side of the focal
\* entity, one of them two levels away.
C19_Witness ==
    /\ AsciiCalled /\ pc = "done" /\ depth >= 2
    /\ \E n, m \in DOMAIN node_levels :
           /\ node_levels[n] > 0 /\ node_levels[m] < 0
           /\ Abs(node_levels[n]) = 2 \/ Abs(node_levels[m]) = 2

\* C20: from the first sweep on every level lies in -depth..depth; a node
\* whose level has absolute value depth is neither put on the queue nor
\* expanded; and the focal entity is expanded by each sweep whatever the depth:
\* when the dependency sweep ends every target of an edge leaving it has been
\* visited, and when the caller sweep ends every source of an edge entering it.
C20_LevelsWithinDepth ==
    (AsciiCalled /\ pc \in {"bfs_dep", "bfs_caller", "arrows", "done"}
         /\ entity_name \in DOMAIN entities) =>
        /\ \A n \in DOMAIN node_levels : node_levels[n] \in -depth..depth
        /\ pc \in {"bfs_dep", "bfs_caller"} =>
               /\ \A i \in 1..Len(queue) : Abs(queue[i][2]) < depth
               /\ cur.todo # {} =>
                      cur.node = entity_name \/ Abs(cur.level) < depth
               /\ ~NotExpanded(entity_name, 0)
        /\ (pc = "bfs_dep" /\ cur.todo = {}) =>
               \A e \in all_edges : e[1] = entity_name => e[2] \in DOMAIN visited_bfs
        /\ (pc = "bfs_caller" /\ cur.todo = {}) =>
               \A e \in all_edges : e[2] = entity_name => e[1] \in DOMAIN visited_bfs

\* A call returned with a node at the depth limit that has a collected edge
\* to follow in the direction of its sweep, and a node below the limit.
C20_Witness ==
    /\ AsciiCalled /\ pc = "done" /\ depth >= 2
    /\ \E n \in DOMAIN node_levels :
           \/ node_levels[n] = depth /\ \E e \in all_edges : e[1] = n
           \/ node_levels[n] = -depth /\ \E e \in all_edges : e[2] = n
    /\ \E m \in DOMAIN node_levels : Abs(node_levels[m]) \in 1..(depth - 1)

\* The boxes of a found entity's diagram have their positions.
Placed ==
    AsciiCalled /\ pc \in {"arrows", "done"} /\ all_nodes # {}
        /\ entity_name \in DOMAIN entities

\* The levels that hold a collected node.
OccupiedLevels == {node_levels[n] : n \in all_nodes}

\* The widest box recorded for a node of level lvl.
WidestAt(lvl) ==
    MaxOf({entity_positions[n][3] : n \in {m \in all_nodes : node_levels[m] = lvl}})

\* C21: the boxes of the lowest occupied level have x = 1; the boxes of every
\* other occupied level have the x of the occupied level just below plus the
\* widest box of that level plus 10; so a box of a smaller level ends left of
\* where a box of a larger level begins.
C21_ColumnAssignment ==
    Placed =>
        /\ DOMAIN entity_positions = all_nodes
        /\ \A n \in all_nodes :
               LET below == {l \in OccupiedLevels : l < node_levels[n]}
               IN IF below = {} THEN entity_positions[n][1] = 1
                  ELSE LET prev == CHOOSE l \in below : \A k \in below : k <= l
                           at == CHOOSE m \in all_nodes : node_levels[m] = prev
                       IN entity_positions[n][1] =
                              entity_positions[at][1] + WidestAt(prev) + 10
        /\ \A a, b \in all_nodes :
               node_levels[a] < node_levels[b] =>
                   entity_positions[a][1] + entity_positions[a][3]
                       < entity_positions[b][1]

\* A diagram with three occupied levels whose boxes differ in width.
C21_Witness ==
    /\ Placed /\ pc = "done"
    /\ Cardinality(OccupiedLevels) = 3
    /\ \E a, b \in all_nodes : entity_positions[a][3] # entity_positions[b][3]

\* C22: a box stands at y = 1 + 5 * i, where i is the number of collected
\* nodes of its level whose name sorts before its own, and is 3 rows high.
C22_RowAssignment ==
    Placed =>
        \A n \in all_nodes :
            LET above == {m \in all_nodes :
                              node_levels[m] = node_levels[n] /\ StrLess(m, n)}
            IN /\ entity_positions[n][2] = 1 + 5 * Cardinality(above)
               /\ entity_positions[n][4] = 3

\* A diagram with a level beside the focal one that holds two names, in
\* rows 1 and 6.
C22_Witness ==
    /\ Placed /\ pc = "done"
    /\ \E a, b \in all_nodes :
           /\ a # b /\ node_levels[a] = node_levels[b] /\ node_levels[a] # 0
           /\ entity_positions[a][2] = 1 /\ entity_positions[b][2] = 6

\* The smallest and the largest member of a set of integers.
Least(S) == CHOOSE m \in S : \A v \in S : m <= v
Greatest(S) == CHOOSE m \in S : \A v \in S : m >= v

\* C23: whatever writes followed the reset, the bounds are those of the set
\* cells: min_x and min_y the smallest x and y, max_x and max_y the largest
\* plus one; the rendered text has max_y - min_y rows of max_x - min_x
\* characters each, and its first and last row and column hold a set cell.
\* An empty grid is rendered as the marker.
C23_BoundsAreTight ==
    OnGrid =>
        LET cells == DOMAIN surface.grid
            xs == {p[1] : p \in cells}
            ys == {p[2] : p \in cells}
            rows == LinesOf(RenderGrid(surface))
        IN IF cells = {}
           THEN RenderGrid(surface) = "(Empty Diagram - Grid is empty)"
           ELSE /\ surface.min_x = Least(xs) /\ surface.max_x = Greatest(xs) + 1
                /\ surface.min_y = Least(ys) /\ surface.max_y = Greatest(ys) + 1
                /\ Len(rows) = surface.max_y - surface.min_y
                /\ \A i \in 1..Len(rows) :
                       /\ Len(rows[i]) = surface.max_x - surface.min_x
                       /\ \A j \in 1..Len(rows[i]) :
                              SubSeq(rows[i], j, j) =
                                  GridGet(surface, surface.min_x + j - 1,
                                          surface.min_y + i - 1)
                /\ \E p \in cells : p[1] = surface.min_x
                /\ \E p \in cells : p[1] = surface.max_x - 1
                /\ \E p \in cells : p[2] = surface.min_y
                /\ \E p \in cells : p[2] = surface.max_y - 1

\* A write came after writes elsewhere: the grid is full, reaches left of
\* and above (1, 1) and as far right as a call can write, and holds a blank.
C23_Witness ==
    /\ pc = "set"
    /\ Cardinality(DOMAIN surface.grid) = MaxCells
    /\ surface.min_x < 1 /\ surface.min_y < 1
    /\ surface.max_x = MaxGrid + 1
    /\ \E p \in DOMAIN surface.grid : surface.grid[p] = " "

\* C24: once every arrow of a diagram is drawn, every cell the boxes were
\* drawn with (corners, borders, every character of the label rows) holds the
\* character the box drawing wrote.
C24_ArrowsSpareBoxes ==
    (Placed /\ pc = "done") =>
        LET boxes == Layout(EmptySurface, node_levels, all_nodes).surface.grid
        IN \A p \in DOMAIN boxes : surface.grid[p] = boxes[p]

\* What the collision policy makes of a cell that holds old, for a segment
\* whose line character is line and whose perpendicular is across.
PolicyCell(old, line, across) ==
    IF old = " " THEN line
    ELSE IF old = across THEN "+"
    ELSE old

\* T is S with the cells of segment redrawn by the collision policy, every
\* cell of the segment set, and nothing else touched.
FollowsPolicy(S, T, segment, line, across) ==
    /\ \A p \in segment :
           /\ GridGet(T, p[1], p[2]) = PolicyCell(GridGet(S, p[1], p[2]), line, across)
           /\ p \in DOMAIN T.grid
    /\ DOMAIN S.grid \subseteq DOMAIN T.grid
    /\ DOMAIN T.grid \subseteq DOMAIN S.grid \cup segment
    /\ \A p \in DOMAIN S.grid \ segment : T.grid[p] = S.grid[p]

\* C25: a segment drawn with collision checking, over any grid and between
\* any two ends, turns a blank cell into its line character and a cell with
\* the perpendicular line character into '+', leaves a cell with its own line
\* character, a '+' or any other glyph as it is, and removes no cell.
C25_CollisionPolicy ==
    OnGrid =>
        /\ \A x1, x2 \in GridColumns, y \in GridRows :
               FollowsPolicy(surface, DrawHorizontalSegment(surface, x1, y, x2, TRUE),
                             {<<x, y>> : x \in Min(x1, x2)..Max(x1, x2)}, "-", "|")
        /\ \A x \in GridColumns, y1, y2 \in GridRows :
               FollowsPolicy(surface, DrawVerticalSegment(surface, x, y1, y2, TRUE),
                             {<<x, y>> : y \in Min(y1, y2)..Max(y1, y2)}, "|", "-")

\* A horizontal segment was drawn along a row that now holds a joint, a line
\* character and a glyph that is neither, side by side.
C25_Witness ==
    /\ pc = "hseg"
    /\ \E y \in GridRows :
           /\ {<<x, y>> : x \in GridColumns} \subseteq DOMAIN surface.grid
           /\ {surface.grid[<<x, y>>] : x \in GridColumns} \in
                  {{"+", "-", "x"}, {"+", "-", CharArrowRight}}

\* _draw_arrow returned, in the arrow specification.
Arrowed == pc = "arrowed"

\* Twice the differences dx and dy of the centres of the two boxes.
TwiceDx ==
    LET sp == entity_positions["source"]
        tp == entity_positions["target"]
    IN (2 * tp[1] + tp[3]) - (2 * sp[1] + sp[3])
TwiceDy ==
    LET sp == entity_positions["source"]
        tp == entity_positions["target"]
    IN (2 * tp[2] + tp[4]) - (2 * sp[2] + sp[4])

\* The cells between a and b, ends included, of row y and of column x.
RowCells(a, b, y) == {<<x, y>> : x \in Min(a, b)..Max(a, b)}
ColumnCells(x, a, b) == {<<x, y>> : y \in Min(a, b)..Max(a, b)}

\* The route the claims describe for the two recorded boxes: its anchors, the
\* step away from the source, the bend, the arrowhead and its cell, the cells
\* of the path.
ClaimedRoute ==
    LET sp == entity_positions["source"]
        tp == entity_positions["target"]
        across == Abs(TwiceDx) >= Abs(TwiceDy)
        forward == IF across THEN TwiceDx > 0 ELSE TwiceDy > 0
        step == IF forward THEN 1 ELSE -1
        start == IF across
                 THEN <<IF forward THEN sp[1] + sp[3] - 1 ELSE sp[1], sp[2] + sp[4] \div 2>>
                 ELSE <<sp[1] + sp[3] \div 2, IF forward THEN sp[2] + sp[4] - 1 ELSE sp[2]>>
        end == IF across
               THEN <<IF forward THEN tp[1] ELSE tp[1] + tp[3] - 1, tp[2] + tp[4] \div 2>>
               ELSE <<tp[1] + tp[3] \div 2, IF forward THEN tp[2] ELSE tp[2] + tp[4] - 1>>
        mid == IF across THEN (start[1] + end[1]) \div 2 ELSE (start[2] + end[2]) \div 2
    IN [across |-> across,
        bends |-> IF across THEN {<<mid, start[2]>>, <<mid, end[2]>>}
                  ELSE {<<start[1], mid>>, <<end[1], mid>>},
        head |-> IF across THEN <<end[1] - step, end[2]>> ELSE <<end[1], end[2] - step>>,
        arrow |-> IF across THEN (IF forward THEN ">" ELSE "<")
                  ELSE (IF forward THEN "v" ELSE "^"),
        cells |-> IF across
                  THEN RowCells(start[1] + step, mid, start[2])
                       \cup ColumnCells(mid, start[2], end[2])
                       \cup RowCells(mid, end[1] - step, end[2])
                  ELSE ColumnCells(start[1], start[2] + step, mid)
                       \cup RowCells(start[1], end[1], mid)
                       \cup ColumnCells(end[1], mid, end[2] - step)]

\* C26: an arrow drawn on an empty grid covers the cells of the H-V-H route
\* when |dx| >= |dy| and of the V-H-V route otherwise, leaving the source by
\* its right or bottom edge when the difference is positive and by its left
\* or top edge when not, and its bends are at the floor of the midpoint of the
\* two anchors: the bends hold '+' unless the arrowhead lies on them.
C26_RoutingMode ==
    Arrowed =>
        /\ DOMAIN surface.grid = ClaimedRoute.cells
        /\ \A p \in ClaimedRoute.bends \ {ClaimedRoute.head} : surface.grid[p] = "+"
        /\ \A p \in DOMAIN surface.grid :
               surface.grid[p] = (IF ClaimedRoute.across THEN "|" ELSE "-") =>
                   \E b \in ClaimedRoute.bends :
                       IF ClaimedRoute.across THEN p[1] = b[1] ELSE p[2] = b[2]

\* An arrow was drawn between boxes whose centres differ as much in x as in
\* y, and has a vertical stretch between its bends.
C26_Witness ==
    /\ Arrowed
    /\ Abs(TwiceDx) = Abs(TwiceDy) /\ TwiceDy # 0
    /\ \E p \in DOMAIN surface.grid : surface.grid[p] = "|"

ArrowHeads == {CharArrowLeft, CharArrowRight, CharArrowUp, CharArrowDown}

\* C27: when _draw_arrow has returned, the cell one step outside the border by
\* which the target box is entered, at the middle of that border, holds the
\* arrowhead of the direction routed: '>' left of the left border, '<' right
\* of the right border, 'v' above the top border, '^' below the bottom
\* border; and no other cell holds an arrowhead.
C27_ArrowheadPlacement ==
    Arrowed =>
        LET tp == entity_positions["target"]
            across == Abs(TwiceDx) >= Abs(TwiceDy)
            head == IF across
                    THEN IF TwiceDx > 0 THEN <<tp[1] - 1, tp[2] + tp[4] \div 2>>
                         ELSE <<tp[1] + tp[3], tp[2] + tp[4] \div 2>>
                    ELSE IF TwiceDy > 0 THEN <<tp[1] + tp[3] \div 2, tp[2] - 1>>
                         ELSE <<tp[1] + tp[3] \div 2, tp[2] + tp[4]>>
            arrow == IF across THEN (IF TwiceDx > 0 THEN ">" ELSE "<")
                     ELSE (IF TwiceDy > 0 THEN "v" ELSE "^")
        IN /\ head \in DOMAIN surface.grid
           /\ surface.grid[head] = arrow
           /\ {p \in DOMAIN surface.grid : surface.grid[p] \in ArrowHeads} = {head}

\* An arrow was drawn upwards to a box that lies left of the source, its
\* head below the target's bottom border.
C27_Witness ==
    /\ Arrowed
    /\ TwiceDy < 0 /\ TwiceDx < 0 /\ Abs(TwiceDx) < Abs(TwiceDy)
    /\ \E p \in DOMAIN surface.grid :
           /\ surface.grid[p] = "^"
           /\ p[2] = entity_positions["target"][2] + entity_positions["target"][4]

\* The line of the edge from x to y in a Mermaid diagram.
EdgeLine(x, y) == "    " \o x \o " --> " \o y

\* C28: in the lines of a Mermaid diagram, the line of an edge comes after the
\* lines that define its two nodes, no node is defined twice, no edge line
\* appears twice, and between the five heading lines and the closing fence
\* every line defines a node or is an edge.
C28_MermaidOrdering ==
    (generator = "mermaid" /\ pc = "done" /\ entity_name \in DOMAIN entities) =>
        LET lines == LinesOf(result)
            names == DOMAIN entities
            At(l) == {k \in 1..Len(lines) : lines[k] = l}
        IN /\ \A x, y \in names :
                  /\ Cardinality(At(EdgeLine(x, y))) <= 1
                  /\ \A k \in At(EdgeLine(x, y)) :
                         /\ \E i \in At(NodeLine(x)) : i < k
                         /\ \E j \in At(NodeLine(y)) : j < k
           /\ \A n \in names : Cardinality(At(NodeLine(n))) <= 1
           /\ \A k \in 6..(Len(lines) - 1) :
                  \/ \E n \in names : lines[k] = NodeLine(n)
                  \/ \E x, y \in names : lines[k] = EdgeLine(x, y)

\* A Mermaid diagram of an entity on a two-cycle, at a depth at which the
\* dependency pass emits both edges and the used-by pass meets them again.
C28_Witness ==
    /\ generator = "mermaid" /\ pc = "done" /\ depth >= 2
    /\ entity_name \in DOMAIN entities
    /\ \E b \in DOMAIN entities \ {entity_name} :
           /\ b \in entities[entity_name].dependencies
           /\ b \in entities[entity_name].used_by
           /\ entity_name \in entities[b].dependencies
           /\ \E i, j \in 1..Len(LinesOf(result)) :
                  /\ LinesOf(result)[i] = EdgeLine(entity_name, b)
                  /\ LinesOf(result)[j] = EdgeLine(b, entity_name)

\* The cells of the box recorded for node n.
BoxCells(n) ==
    Rect(entity_positions[n][1], entity_positions[n][2],
         entity_positions[n][3], entity_positions[n][4])

\* C29: the boxes of two collected nodes share no cell; between a box and a
\* box of a higher level lie at least 10 columns; a box and the next box below
\* it in its level are 2 rows apart; and before the first arrow is drawn the
\* grid holds the cells of the boxes and no other.
C29_BoxesApart ==
    Placed =>
        /\ \A a, b \in all_nodes :
               a # b =>
                   /\ BoxCells(a) \cap BoxCells(b) = {}
                   /\ node_levels[a] < node_levels[b] =>
                          entity_positions[b][1]
                              - (entity_positions[a][1] + entity_positions[a][3]) >= 10
                   /\ (node_levels[a] = node_levels[b]
                           /\ entity_positions[a][2] < entity_positions[b][2]) =>
                          /\ entity_positions[a][1] = entity_positions[b][1]
                          /\ entity_positions[b][2]
                                 - (entity_positions[a][2] + entity_positions[a][4]) >= 2
                          /\ \/ entity_positions[b][2]
                                    - (entity_positions[a][2] + entity_positions[a][4]) = 2
                             \/ \E c \in all_nodes :
                                    /\ node_levels[c] = node_levels[a]
                                    /\ entity_positions[a][2] < entity_positions[c][2]
                                    /\ entity_positions[c][2] < entity_positions[b][2]
        /\ OnlyBoxesDrawn =>
               DOMAIN surface.grid = UNION {BoxCells(n) : n \in all_nodes}

\* The boxes of a diagram are drawn and no arrow yet: two boxes of different
\* widths share a level, and a level to their right holds a third.
C29_Witness ==
    /\ Placed /\ OnlyBoxesDrawn
    /\ \E a, b, c \in all_nodes :
           /\ node_levels[a] = node_levels[b] /\ node_levels[a] < node_levels[c]
           /\ entity_positions[a][3] < entity_positions[b][3]
           /\ entity_positions[a][2] < entity_positions[b][2]

\* C30: whatever files a CodeParser has parsed, for all entities a and b of
\* its map, b is a dependency of a if and only if a is in b's used_by.
C30_ParsedGraphInverse ==
    pc = "parser" =>
        \A a, b \in DOMAIN entities :
            b \in entities[a].dependencies <=> a \in entities[b].used_by

====
